---- MODULE Spec2Model ----
(***************************************************************************)
(* Hive-to-Snowflake SQL converter: the conversion engine's entry points   *)
(* (HiveToSnowflakeConverter, SQLParser, SQLConverter), the statement       *)
(* segmenters and the DDL transformer, modelled over texts that are         *)
(* sequences of one-character strings.  The regular expressions of the     *)
(* source are written as syntax trees and run by a backtracking matcher     *)
(* with the semantics of the JavaScript engine (leftmost match, greedy and  *)
(* lazy quantifiers tried in priority order, capture groups).               *)
(***************************************************************************)
EXTENDS Integers, Sequences, FiniteSets, TLC

-----------------------------------------------------------------------------
(* Texts *)

Chars(str) == [i \in 1..Len(str) |-> SubSeq(str, i, i)]

NL == "\n"

LowerCase == Chars("abcdefghijklmnopqrstuvwxyz")
UpperCase == Chars("ABCDEFGHIJKLMNOPQRSTUVWXYZ")
DigitChars == {"0", "1", "2", "3", "4", "5", "6", "7", "8", "9"}
SpaceChars == {" ", NL, "\t", "\r"}
Range(f) == {f[k] : k \in DOMAIN f}
Letters == Range(LowerCase) \cup Range(UpperCase)
WordChars == Letters \cup DigitChars \cup {"_"}

\* ch with the letters of from turned into those of to
recase(ch, from, to) ==
  IF \E k \in DOMAIN from : from[k] = ch
    THEN to[CHOOSE k \in DOMAIN from : from[k] = ch]
    ELSE ch

toUpperChar(ch) == recase(ch, LowerCase, UpperCase)
toLowerChar(ch) == recase(ch, UpperCase, LowerCase)

\* String.prototype.toUpperCase
toUpperCase(s) == [k \in 1..Len(s) |-> toUpperChar(s[k])]

\* e, with v evaluated first: the value an operator is applied to is computed
\* before the application, as in the source
Then(v, e) == IF v = v THEN e ELSE e

\* The concatenation of ss[lo..hi]
RECURSIVE FlattenIn(_, _, _)
FlattenIn(ss, lo, hi) ==
  CASE lo > hi -> <<>>
    [] lo = hi -> ss[lo]
    [] OTHER -> FlattenIn(ss, lo, (lo + hi) \div 2)
                  \o FlattenIn(ss, (lo + hi) \div 2 + 1, hi)

Flatten(ss) == FlattenIn(ss, 1, Len(ss))

\* Array.prototype.join
join(parts, sep) ==
  Flatten([k \in 1..Len(parts) |->
             IF k = 1 THEN parts[k] ELSE sep \o parts[k]])

\* String.prototype.trimStart: s from its first character that is no white
\* space on
trimStart(s) ==
  SubSeq(s, CHOOSE k \in 1..(Len(s) + 1) :
              /\ k > Len(s) \/ s[k] \notin SpaceChars
              /\ \A j \in 1..(k - 1) : s[j] \in SpaceChars,
         Len(s))

\* String.prototype.trimEnd
trimEnd(s) ==
  SubSeq(s, 1, CHOOSE k \in 0..Len(s) :
                 /\ k = 0 \/ s[k] \notin SpaceChars
                 /\ \A j \in (k + 1)..Len(s) : s[j] \in SpaceChars)

\* String.prototype.trim
trim(s) == trimEnd(trimStart(s))

\* The positions in s of the character sep
positions(s, sep) == {k \in 1..Len(s) : s[k] = sep}

\* The n-th element of the set of numbers ks in increasing order; 0 for
\* n = 0 and last for n beyond the set
nth(ks, n, last) ==
  IF n = 0 THEN 0
  ELSE IF n > Cardinality(ks) THEN last
  ELSE CHOOSE k \in ks : Cardinality({j \in ks : j < k}) = n - 1

\* The pieces of s between the cuts
pieces(s, cuts) ==
  [n \in 1..(Cardinality(cuts) + 1) |->
     SubSeq(s, nth(cuts, n - 1, 0) + 1, nth(cuts, n, Len(s) + 1) - 1)]

\* String.prototype.split with a one-character separator
splitChar(s, sep) == pieces(s, positions(s, sep))

\* The decimal numeral of n (|n| < 100)
digit(d) == <<SubSeq("0123456789", d + 1, d + 1)>>
numeral(abs) == (IF abs >= 10 THEN digit(abs \div 10) ELSE <<>>) \o digit(abs % 10)
decimal(n) == IF n < 0 THEN <<"-">> \o numeral(0 - n) ELSE numeral(n)

\* An operation either returns a value or throws an Error with a message
Ok(v) == [thrown |-> FALSE, value |-> v, message |-> <<>>]
Throw(msg) == [thrown |-> TRUE, value |-> <<>>, message |-> msg]

\* Whether sub occurs in s at position i
occursAt(s, sub, i) ==
  /\ i >= 1
  /\ i + Len(sub) - 1 <= Len(s)
  /\ \A j \in 1..Len(sub) : s[i + j - 1] = sub[j]

\* String.prototype.includes
includes(s, sub) == \E i \in 1..(Len(s) + 1) : occursAt(s, sub, i)

\* String.prototype.startsWith
startsWith(s, sub) == occursAt(s, sub, 1)

-----------------------------------------------------------------------------
(* Regular expressions: syntax trees *)

Lit(str) == [t |-> "lit", s |-> Chars(str)]
Ch(set) == [t |-> "set", neg |-> FALSE, cs |-> set]
NotCh(set) == [t |-> "set", neg |-> TRUE, cs |-> set]
AnyCh == NotCh({})
Dot == NotCh({NL, "\r"})
WS == Ch(SpaceChars)
WordCh == Ch(WordChars)
Digit == Ch(DigitChars)
Cat(rs) == [t |-> "cat", rs |-> rs]
Alt(rs) == [t |-> "alt", rs |-> rs]
Rep(r, min, max, greedy) ==
  [t |-> "rep", r |-> r, min |-> min, max |-> max, g |-> greedy]
Plus(r) == Rep(r, 1, -1, TRUE)
Star(r) == Rep(r, 0, -1, TRUE)
Opt(r) == Rep(r, 0, 1, TRUE)
PlusLazy(r) == Rep(r, 1, -1, FALSE)
StarLazy(r) == Rep(r, 0, -1, FALSE)
Grp(n, r) == [t |-> "grp", n |-> n, r |-> r]
Bol == [t |-> "bol"]
Eol == [t |-> "eol"]
WordB == [t |-> "wb"]
\* an alternation of literal words
Words(strs) == Alt([k \in 1..Len(strs) |-> Lit(strs[k])])

\* A word sequence separated by \s+ (KW(<<"ORDER", "BY">>) is ORDER\s+BY)
KW(ws) ==
  Cat([k \in 1..(2 * Len(ws) - 1) |->
         IF k % 2 = 1 THEN Lit(ws[(k + 1) \div 2]) ELSE Plus(WS)])

\* A regular expression literal: its tree and its flags (i: ignoreCase,
\* m: multiline, g: global)
RegExp(r, flagStr) == [r |-> r, f |-> flagStr]

hasFlag(re, flag) == \E k \in 1..Len(re.f) : SubSeq(re.f, k, k) = flag

\* What the matcher takes from the flags
Flags(re) == [i |-> hasFlag(re, "i"), m |-> hasFlag(re, "m")]

MaxGroups == 7

NoCaps == [n \in 1..MaxGroups |-> <<0, 0>>]

NoMatch == [ok |-> FALSE, b |-> 0, e |-> 0, c |-> NoCaps]

\* Two characters are the same to an expression with the i flag when their
\* upper-case forms are
eqChar(a, b, f) == IF f.i THEN toUpperChar(a) = toUpperChar(b) ELSE a = b

inSet(ch, cs, f) ==
  \/ ch \in cs
  \/ f.i /\ (toUpperChar(ch) \in cs \/ toLowerChar(ch) \in cs)

isWordAt(s, i) == i >= 1 /\ i <= Len(s) /\ s[i] \in WordChars

\* Among the attempts that matched, the one that comes first in the
\* engine's priority order (lowest n)
foremost(good) ==
  IF good = {} THEN NoMatch
  ELSE (CHOOSE t \in good : \A u \in good : t.n <= u.n).m

Best(tries) == foremost({t \in tries : t.m.ok})

\* The first position from i to last at which the quantified character
\* class r stops taking characters
spanEnd(r, s, i, f, last) ==
  CHOOSE p \in i..last :
    /\ p = last \/ (inSet(s[p], r.r.cs, f) = r.r.neg)
    /\ \A q \in i..(p - 1) : inSet(s[q], r.r.cs, f) # r.r.neg

\* How many characters from position i on a quantified character class r
\* can take
Span(r, s, i, f) ==
  spanEnd(r, s, i, f,
          IF r.max < 0 \/ r.max > Len(s) - i + 1 THEN Len(s) + 1
          ELSE i + r.max) - i

\* Whether the literal text lit stands in s at position i
litAt(s, lit, i, f) ==
  /\ i + Len(lit) - 1 <= Len(s)
  /\ \A j \in 1..Len(lit) : eqChar(s[i + j - 1], lit[j], f)

\* The node stack to go on with after one more round of the quantified
\* node r at position i (the round must take a character), then the rest
again(r, i, rest) ==
  <<r.r, [t |-> "adv", from |-> i],
    Rep(r.r, IF r.min > 0 THEN r.min - 1 ELSE 0,
        IF r.max > 0 THEN r.max - 1 ELSE r.max, r.g)>> \o rest

\* a if it matched (or b is not allowed), b otherwise
orElse(a, b) == IF a.ok THEN a ELSE b

\* The backtracking matcher: the first way, in the engine's priority order,
\* to match the node stack k against s from position i.
RECURSIVE Run(_, _, _, _, _)
Run(k, s, i, c, f) ==
  CASE k = <<>> -> [ok |-> TRUE, b |-> 0, e |-> i, c |-> c]
    [] k # <<>> /\ k[1].t = "lit" /\ litAt(s, k[1].s, i, f) ->
         Run(Tail(k), s, i + Len(k[1].s), c, f)
    [] k # <<>> /\ k[1].t = "set" /\ i <= Len(s)
         /\ (inSet(s[i], k[1].cs, f) # k[1].neg) ->
         Run(Tail(k), s, i + 1, c, f)
    [] k # <<>> /\ k[1].t = "cat" -> Run(k[1].rs \o Tail(k), s, i, c, f)
    [] k # <<>> /\ k[1].t = "alt" ->
         \* the alternatives, from left to right
         Best({[n |-> n, m |-> Run(<<k[1].rs[n]>> \o Tail(k), s, i, c, f)] :
                 n \in 1..Len(k[1].rs)})
    [] k # <<>> /\ k[1].t = "rep" /\ k[1].r.t = "set" ->
         \* the counts, from the longest down when greedy, from the shortest
         \* up when lazy
         Best({[n |-> IF k[1].g THEN 0 - n ELSE n,
                m |-> Run(Tail(k), s, i + n, c, f)] :
                 n \in k[1].min..Span(k[1], s, i, f)})
    [] k # <<>> /\ k[1].t = "rep" /\ k[1].r.t # "set" /\ k[1].min > 0 ->
         Run(again(k[1], i, Tail(k)), s, i, c, f)
    [] k # <<>> /\ k[1].t = "rep" /\ k[1].r.t # "set" /\ k[1].min = 0
         /\ k[1].max = 0 ->
         Run(Tail(k), s, i, c, f)
    [] k # <<>> /\ k[1].t = "rep" /\ k[1].r.t # "set" /\ k[1].min = 0
         /\ k[1].max # 0 /\ k[1].g ->
         orElse(Run(again(k[1], i, Tail(k)), s, i, c, f),
                Run(Tail(k), s, i, c, f))
    [] k # <<>> /\ k[1].t = "rep" /\ k[1].r.t # "set" /\ k[1].min = 0
         /\ k[1].max # 0 /\ ~k[1].g ->
         orElse(Run(Tail(k), s, i, c, f),
                Run(again(k[1], i, Tail(k)), s, i, c, f))
    [] k # <<>> /\ k[1].t = "adv" /\ i > k[1].from -> Run(Tail(k), s, i, c, f)
    [] k # <<>> /\ k[1].t = "grp" ->
         Run(<<[t |-> "open", n |-> k[1].n], k[1].r,
               [t |-> "close", n |-> k[1].n]>> \o Tail(k), s, i, c, f)
    [] k # <<>> /\ k[1].t = "open" ->
         Run(Tail(k), s, i, [c EXCEPT ![k[1].n] = <<i, 0>>], f)
    [] k # <<>> /\ k[1].t = "close" ->
         Run(Tail(k), s, i, [c EXCEPT ![k[1].n] = <<c[k[1].n][1], i>>], f)
    [] k # <<>> /\ k[1].t = "bol"
         /\ (i = 1 \/ (f.m /\ s[i - 1] \in {NL, "\r"})) ->
         Run(Tail(k), s, i, c, f)
    [] k # <<>> /\ k[1].t = "eol"
         /\ (i = Len(s) + 1 \/ (f.m /\ s[i] \in {NL, "\r"})) ->
         Run(Tail(k), s, i, c, f)
    [] k # <<>> /\ k[1].t = "wb" /\ (isWordAt(s, i - 1) # isWordAt(s, i)) ->
         Run(Tail(k), s, i, c, f)
    [] OTHER -> NoMatch

\* The match of re that starts exactly at position i
matchAt(re, s, i) == [Run(<<re.r>>, s, i, NoCaps, Flags(re)) EXCEPT !.b = i]

\* RegExp.prototype.exec from position i on: the leftmost match
exec(re, s, i) ==
  Best({[n |-> b, m |-> matchAt(re, s, b)] : b \in i..(Len(s) + 1)})

\* RegExp.prototype.test
test(re, s) == exec(re, s, 1).ok

\* The text between two positions of s, empty when the group they are of
\* took no part
between(s, span) == IF span[2] = 0 THEN <<>> ELSE SubSeq(s, span[1], span[2] - 1)

\* The text of capture group n of match m (0: the whole match); an unset
\* group gives the empty text, as $n does in a replacement.
group(s, m, n) == between(s, IF n = 0 THEN <<m.b, m.e>> ELSE m.c[n])

\* A replacement: a sequence of literal texts (T), group references (G, $n;
\* G(0) is $&) and calls of a replacement function of the source (F)
T(str) == [g |-> -1, s |-> Chars(str), fn |-> ""]
G(n) == [g |-> n, s |-> <<>>, fn |-> ""]
F(name) == [g |-> -2, s |-> <<>>, fn |-> name]

RECURSIVE replace(_, _, _)

\* /RANGE\s+BETWEEN\s+(\d+)\s+PRECEDING\s+AND\s+CURRENT\s+ROW/gi and
\* /ROWS\s+BETWEEN\s+(\d+)\s+PRECEDING\s+AND\s+CURRENT\s+ROW/gi
reFrame(unit) ==
  RegExp(Cat(<<KW(<<unit, "BETWEEN">>), Plus(WS), Grp(1, Plus(Digit)),
               Plus(WS), KW(<<"PRECEDING", "AND", "CURRENT", "ROW">>)>>), "gi")

rowsFrame == <<T("ROWS BETWEEN "), G(1), T(" PRECEDING AND CURRENT ROW")>>

\* fieldList.map(field => `GET_PATH(PARSE_JSON(${json}), '${field}')`)
\*   .join(', ')
getPaths(json, fieldList) ==
  join([k \in 1..Len(fieldList) |->
          Chars("GET_PATH(PARSE_JSON(") \o json \o Chars("), '")
            \o trim(fieldList[k]) \o Chars("')")],
       Chars(", "))

\* The replacement functions passed to String.prototype.replace, on the
\* first two capture groups
call(fn, args, fields) ==
  CASE fn = "hiveUnixTimestamp" ->
         Chars("date_part('epoch', ")
           \o (IF args # <<>> THEN args ELSE Chars("current_timestamp()"))
           \o Chars(")")
    [] fn = "fallbackUnixTimestamp" ->
         Chars("date_part(epoch_seconds, ")
           \o (IF args # <<>> THEN args ELSE Chars("current_timestamp()"))
           \o Chars(")")
    [] fn = "sqlConverterUnixTimestamp" ->
         Chars("TO_NUMBER(")
           \o (IF args # <<>> THEN args ELSE Chars("CURRENT_TIMESTAMP(3)"))
           \o Chars("::timestamp_tz AT TIME ZONE 'UTC')")
    [] fn = "libJsonTuple" -> getPaths(args, splitChar(fields, ","))
    [] fn = "hiveOverClause" ->
         Chars("OVER (")
           \o replace(replace(args, reFrame("RANGE"), rowsFrame),
                      reFrame("ROWS"), rowsFrame)
           \o Chars(")")

expand(repl, s, m) ==
  Flatten([k \in 1..Len(repl) |->
             IF repl[k].g = -1 THEN repl[k].s
             ELSE IF repl[k].g = -2
               THEN call(repl[k].fn, group(s, m, 1), group(s, m, 2))
             ELSE group(s, m, repl[k].g)])

\* The successive matches of re from position i on: after a match the
\* search goes on behind it (one further after an empty match); the first
\* match alone when every is false
RECURSIVE matchesFrom(_, _, _, _)

andOn(s, re, m, every) ==
  IF ~m.ok THEN <<>>
  ELSE IF ~every THEN <<m>>
  ELSE <<m>> \o matchesFrom(s, re, IF m.e > m.b THEN m.e ELSE m.e + 1, every)

matchesFrom(s, re, i, every) == andOn(s, re, exec(re, s, i), every)

\* The matches a method works on: every match when re is global, the first
\* match otherwise
matchList(s, re) == matchesFrom(s, re, 1, hasFlag(re, "g"))

\* s with the matches ms replaced as repl says
splice(s, repl, ms) ==
  Flatten([k \in 1..(Len(ms) + 1) |->
             SubSeq(s, IF k = 1 THEN 1 ELSE ms[k - 1].e,
                       IF k > Len(ms) THEN Len(s) ELSE ms[k].b - 1)
               \o (IF k > Len(ms) THEN <<>> ELSE expand(repl, s, ms[k]))])

\* String.prototype.replace(re, repl)
replace(s, re, repl) == splice(s, repl, matchList(s, re))

\* Successive replacements: res[k] replaced by repls[k], for k = 1, 2, ...
RECURSIVE replaceIn(_, _, _, _, _)
replaceIn(s, res, repls, lo, hi) ==
  CASE lo > hi -> s
    [] lo = hi -> replace(s, res[lo], repls[lo])
    [] OTHER ->
         replaceIn(replaceIn(s, res, repls, lo, (lo + hi) \div 2),
                   res, repls, (lo + hi) \div 2 + 1, hi)

replaceEach(s, res, repls) == replaceIn(s, res, repls, 1, Len(res))

\* The texts of the matches ms
texts(s, ms) == [k \in 1..Len(ms) |-> group(s, ms[k], 0)]

\* String.prototype.match with a global expression: the matched texts
matchAll(s, re) == texts(s, matchesFrom(s, re, 1, TRUE))

\* The texts of s between the matches ms
around(s, ms) ==
  [k \in 1..(Len(ms) + 1) |->
     SubSeq(s, IF k = 1 THEN 1 ELSE ms[k - 1].e,
               IF k > Len(ms) THEN Len(s) ELSE ms[k].b - 1)]

\* String.prototype.split with a regular expression (one that matches no
\* empty text and has no capture group)
splitRe(s, re) == around(s, matchesFrom(s, re, 1, TRUE))

-----------------------------------------------------------------------------
(* Statement segmenters *)

\* sql[i + 1] || ''
charAt(sql, i) == IF i >= 1 /\ i <= Len(sql) THEN sql[i] ELSE ""

\* The locals of HiveToSnowflakeConverter.splitStatements before the loop.
\* cuts is bookkeeping: the positions at which the statement-separation
\* branch was taken.
hiveScanInit ==
  [statements |-> <<>>, currentStatement |-> <<>>, inString |-> FALSE,
   stringChar |-> "", inComment |-> FALSE, inMultilineComment |-> FALSE,
   depth |-> 0, cuts |-> {}, i |-> 1]

\* Whether the scan of HiveToSnowflakeConverter.splitStatements treats a
\* semicolon in state st as a statement separator
hiveSeparates(st) ==
  ~st.inString /\ ~st.inComment /\ ~st.inMultilineComment /\ st.depth = 0

\* "Handle string literals"
hiveQuotes(st, char) ==
  IF char \in {"'", "\""} /\ ~st.inComment /\ ~st.inMultilineComment
    THEN (IF ~st.inString
            THEN [st EXCEPT !.inString = TRUE, !.stringChar = char]
          ELSE IF char = st.stringChar THEN [st EXCEPT !.inString = FALSE]
          ELSE st)
    ELSE st

\* "Handle comments", but for the branch that ends a block comment; opening
\* one advances the index past the asterisk
hiveComments(st, char, nextChar) ==
  IF st.inString THEN st
  ELSE IF char = "-" /\ nextChar = "-" THEN [st EXCEPT !.inComment = TRUE]
  ELSE IF char = "/" /\ nextChar = "*"
    THEN [st EXCEPT !.inMultilineComment = TRUE, !.i = @ + 1]
  ELSE IF char = NL /\ st.inComment THEN [st EXCEPT !.inComment = FALSE]
  ELSE st

\* "Handle parentheses"
hiveParentheses(st, char) ==
  IF ~st.inString /\ ~st.inComment /\ ~st.inMultilineComment
    THEN (IF char = "(" THEN [st EXCEPT !.depth = @ + 1]
          ELSE IF char = ")" THEN [st EXCEPT !.depth = @ - 1]
          ELSE st)
    ELSE st

\* The separation branch: stmt, currentStatement.trim(), is pushed unless
\* empty
hiveCut(st, stmt) ==
  [st EXCEPT !.statements = IF stmt # <<>> THEN Append(@, stmt) ELSE @,
             !.currentStatement = <<>>,
             !.cuts = @ \cup {st.i},
             !.i = @ + 1]

\* "Handle statement separation", else the character joins the statement
hiveSeparation(st, char) ==
  IF char = ";" /\ hiveSeparates(st)
    THEN hiveCut(st, trim(st.currentStatement))
    ELSE [st EXCEPT !.currentStatement = Append(@, char), !.i = @ + 1]

\* The rest of an iteration after the string literals: the end of a block
\* comment skips both of its characters and the rest of the iteration
hiveAfterQuotes(st, char, nextChar) ==
  IF ~st.inString /\ char = "*" /\ nextChar = "/" /\ st.inMultilineComment
    THEN [st EXCEPT !.inMultilineComment = FALSE, !.i = @ + 2]
    ELSE hiveSeparation(
           hiveParentheses(hiveComments(st, char, nextChar), char), char)

\* One iteration of the loop of HiveToSnowflakeConverter.splitStatements, at
\* index st.i (nothing once the index is past the text)
hiveStep(st, sql) ==
  IF st.i > Len(sql) THEN st
  ELSE hiveAfterQuotes(hiveQuotes(st, sql[st.i]), sql[st.i],
                       charAt(sql, st.i + 1))

\* n iterations of that loop
RECURSIVE hiveScan(_, _, _)

hiveScanOn(half, sql, n) == Then(half, hiveScan(half, sql, n))

hiveScan(st, sql, n) ==
  IF n = 0 THEN st
  ELSE IF n = 1 THEN hiveStep(st, sql)
  ELSE hiveScanOn(hiveScan(st, sql, n \div 2), sql, n - n \div 2)

\* After the loop: the trailing statement stmt is pushed unless empty, and
\* the empty statements are filtered out
splitEnd(st, stmt) ==
  [st EXCEPT !.statements =
               SelectSeq(IF stmt # <<>> THEN Append(@, stmt) ELSE @,
                         LAMBDA each : Len(each) > 0)]

splitReturn(st) == splitEnd(st, trim(st.currentStatement))

\* HiveToSnowflakeConverter.splitStatements: the scan, the trailing statement
\* and the final filter; the scan flags at the end of input are kept
hiveSplitStatements(sql) == splitReturn(hiveScan(hiveScanInit, sql, Len(sql)))

\* SQLParser.preprocessSQL
parserPreprocessSQL(sql0) ==
  trim(replaceEach(sql0,
    <<RegExp(Cat(<<Bol, Lit("SET"), Plus(WS), Plus(NotCh({";"})),
                   Ch({";"})>>), "gm"),
      RegExp(Cat(<<Lit("/*+"), Star(NotCh({"*"})), Lit("*/")>>), "g"),
      RegExp(Cat(<<Bol, Lit("--"), Star(WS), Lit("#####")>>), "gm"),
      RegExp(Cat(<<Lit("ARRAY"), Star(WS), Ch({"<"}), Star(WS),
                   Grp(1, Plus(NotCh({">"}))), Star(WS), Ch({">"})>>), "gi"),
      RegExp(Cat(<<Lit("MAP"), Star(WS), Ch({"<"}), Star(WS),
                   Grp(1, Plus(NotCh({">"}))), Star(WS), Ch({","}), Star(WS),
                   Grp(2, Plus(NotCh({">"}))), Star(WS), Ch({">"})>>), "gi"),
      RegExp(Cat(<<Lit("STRUCT"), Star(WS), Ch({"<"}), Plus(NotCh({">"})),
                   Ch({">"})>>), "gi"),
      RegExp(Plus(WS), "g")>>,
    <<<<>>, <<>>, <<T("-- -----")>>, <<T("ARRAY")>>, <<T("OBJECT")>>,
      <<T("OBJECT")>>, <<T(" ")>>>>))

\* The locals of SQLParser.splitStatements before the loop (cuts as above)
parserScanInit ==
  [statements |-> <<>>, currentStatement |-> <<>>, inString |-> FALSE,
   stringChar |-> "", inComment |-> FALSE, depth |-> 0, cuts |-> {},
   i |-> 1]

\* "Handle string literals" of SQLParser.splitStatements
parserQuotes(st, char) ==
  IF char \in {"'", "\""} /\ ~st.inComment
    THEN (IF ~st.inString
            THEN [st EXCEPT !.inString = TRUE, !.stringChar = char]
          ELSE IF char = st.stringChar THEN [st EXCEPT !.inString = FALSE]
          ELSE st)
    ELSE st

\* "Handle comments"
parserComments(st, char, nextChar) ==
  IF st.inString THEN st
  ELSE IF char = "-" /\ nextChar = "-" THEN [st EXCEPT !.inComment = TRUE]
  ELSE IF char = NL /\ st.inComment THEN [st EXCEPT !.inComment = FALSE]
  ELSE st

\* "Handle parentheses"
parserParentheses(st, char) ==
  IF ~st.inString /\ ~st.inComment
    THEN (IF char = "(" THEN [st EXCEPT !.depth = @ + 1]
          ELSE IF char = ")" THEN [st EXCEPT !.depth = @ - 1]
          ELSE st)
    ELSE st

\* The separation branch: stmt, currentStatement.trim(), is pushed
parserCut(st, stmt) ==
  [st EXCEPT !.statements = Append(@, stmt),
             !.currentStatement = <<>>,
             !.cuts = @ \cup {st.i},
             !.i = @ + 1]

\* "Handle statement separation", else the character joins the statement
parserSeparation(st, char) ==
  IF char = ";" /\ ~st.inString /\ ~st.inComment /\ st.depth = 0
    THEN parserCut(st, trim(st.currentStatement))
    ELSE [st EXCEPT !.currentStatement = Append(@, char), !.i = @ + 1]

parserIteration(st, char, nextChar) ==
  parserSeparation(
    parserParentheses(
      parserComments(parserQuotes(st, char), char, nextChar), char), char)

\* One iteration of the loop of SQLParser.splitStatements, at index st.i
parserStep(st, sql) ==
  IF st.i > Len(sql) THEN st
  ELSE parserIteration(st, sql[st.i], charAt(sql, st.i + 1))

\* n iterations of that loop
RECURSIVE parserScan(_, _, _)

parserScanOn(half, sql, n) == Then(half, parserScan(half, sql, n))

parserScan(st, sql, n) ==
  IF n = 0 THEN st
  ELSE IF n = 1 THEN parserStep(st, sql)
  ELSE parserScanOn(parserScan(st, sql, n \div 2), sql, n - n \div 2)

\* SQLParser.splitStatements
parserSplitStatements(sql) ==
  splitReturn(parserScan(parserScanInit, sql, Len(sql)))

\* The first two steps of SQLParser.convert on the text the constructor
\* stored (sql.trim()): preprocessSQL, then splitStatements
parserSegment(sql) == parserSplitStatements(parserPreprocessSQL(trim(sql)))

-----------------------------------------------------------------------------
(* Regular expressions shared by the text-patching converters *)

\* CREATE\s+(?:EXTERNAL\s+)?TABLE\s+(?:IF\s+NOT\s+EXISTS\s+)?(\w+)
createTableNode ==
  Cat(<<Lit("CREATE"), Plus(WS), Opt(Cat(<<Lit("EXTERNAL"), Plus(WS)>>)),
        Lit("TABLE"), Plus(WS),
        Opt(Cat(<<KW(<<"IF", "NOT", "EXISTS">>), Plus(WS)>>)),
        Grp(1, Plus(WordCh))>>)

\* \([^)]+\)
parenthesized == Cat(<<Ch({"("}), Plus(NotCh({")"})), Ch({")"})>>)

\* PARTITIONED\s+BY\s*\([^)]+\)
partitionedByNode ==
  Cat(<<KW(<<"PARTITIONED", "BY">>), Star(WS), parenthesized>>)

\* /CLUSTERED\s+BY/i
reClusteredBy == RegExp(KW(<<"CLUSTERED", "BY">>), "i")

\* /CLUSTERED\s+BY\s*\([^)]+\)\s+INTO\s+\d+\s+BUCKETS/gi
reClusteredByBuckets ==
  RegExp(Cat(<<KW(<<"CLUSTERED", "BY">>), Star(WS), parenthesized, Plus(WS),
               Lit("INTO"), Plus(WS), Plus(Digit), Plus(WS),
               Lit("BUCKETS")>>), "gi")

\* /CLUSTERED\s+BY\s*\(([^)]+)\)/i
reClusteredByColumns ==
  RegExp(Cat(<<KW(<<"CLUSTERED", "BY">>), Star(WS), Ch({"("}),
               Grp(1, Plus(NotCh({")"}))), Ch({")"})>>), "i")

\* /STORED\s+AS\s+\w+/gi
reStoredAsAny ==
  RegExp(Cat(<<KW(<<"STORED", "AS">>), Plus(WS), Plus(WordCh)>>), "gi")

\* /ROW\s+FORMAT\s+[^;]+/gi
reRowFormat ==
  RegExp(Cat(<<KW(<<"ROW", "FORMAT">>), Plus(WS), Plus(NotCh({";"}))>>), "gi")

\* /LOCATION\s+\'[^\']+\'/gi
reLocation ==
  RegExp(Cat(<<Lit("LOCATION"), Plus(WS), Ch({"'"}), Plus(NotCh({"'"})),
               Ch({"'"})>>), "gi")

\* /TBLPROPERTIES\s*\([^)]*\)/gi
reTblProperties ==
  RegExp(Cat(<<Lit("TBLPROPERTIES"), Star(WS), Ch({"("}),
               Star(NotCh({")"})), Ch({")"})>>), "gi")

\* /INSERT\s+INTO\s+TABLE\s+/gi
reInsertIntoTable ==
  RegExp(Cat(<<KW(<<"INSERT", "INTO", "TABLE">>), Plus(WS)>>), "gi")

\* /INSERT\s+OVERWRITE/i
reInsertOverwrite == RegExp(KW(<<"INSERT", "OVERWRITE">>), "i")

\* INSERT\s+OVERWRITE\s+(?:TABLE\s+)?(\w+)
insertOverwriteNode ==
  Cat(<<KW(<<"INSERT", "OVERWRITE">>), Plus(WS),
        Opt(Cat(<<Lit("TABLE"), Plus(WS)>>)), Grp(1, Plus(WordCh))>>)

\* PARTITION\s*\([^)]+\)
partitionNode == Cat(<<Lit("PARTITION"), Star(WS), parenthesized>>)

\* /LATERAL\s+VIEW\s+EXPLODE/i
reLateralViewExplode == RegExp(KW(<<"LATERAL", "VIEW", "EXPLODE">>), "i")

\* /LATERAL\s+VIEW\s+(?:OUTER\s+)?EXPLODE\s*\(([^)]+)\)\s+(\w+)\s+AS\s+(\w+)/gi
reLateralView ==
  RegExp(Cat(<<KW(<<"LATERAL", "VIEW">>), Plus(WS),
               Opt(Cat(<<Lit("OUTER"), Plus(WS)>>)), Lit("EXPLODE"),
               Star(WS), Ch({"("}), Grp(1, Plus(NotCh({")"}))), Ch({")"}),
               Plus(WS), Grp(2, Plus(WordCh)), Plus(WS), Lit("AS"), Plus(WS),
               Grp(3, Plus(WordCh))>>), "gi")

flattenJoin ==
  <<T("CROSS JOIN TABLE(FLATTEN(input => "), G(1), T(")) AS "), G(2), T("("),
    G(3), T(")")>>

\* /DISTRIBUTE\s+BY/ and /SORT\s+BY/ with the given flags
reDistributeBy(flags) == RegExp(KW(<<"DISTRIBUTE", "BY">>), flags)
reSortBy(flags) == RegExp(KW(<<"SORT", "BY">>), flags)

\* name\(([^)]+)\) and name\(([^)]*)\)
call1(name) ==
  Cat(<<Lit(name), Ch({"("}), Grp(1, Plus(NotCh({")"}))), Ch({")"})>>)
call0(name) ==
  Cat(<<Lit(name), Ch({"("}), Grp(1, Star(NotCh({")"}))), Ch({")"})>>)

\* name\(([^,]+),\s*(\d+)\)
callDays(name) ==
  Cat(<<Lit(name), Ch({"("}), Grp(1, Plus(NotCh({","}))), Ch({","}),
        Star(WS), Grp(2, Plus(Digit)), Ch({")"})>>)

\* name\(([^,]+),\s*([^)]+)\)
call2(name) ==
  Cat(<<Lit(name), Ch({"("}), Grp(1, Plus(NotCh({","}))), Ch({","}),
        Star(WS), Grp(2, Plus(NotCh({")"}))), Ch({")"})>>)

\* /ARRAY\s*<[^>]+>/gi and its MAP and STRUCT forms
generic(name) ==
  RegExp(Cat(<<Lit(name), Star(WS), Ch({"<"}), Plus(NotCh({">"})),
               Ch({">"})>>), "gi")

\* /MAP\s*<([^,]+),\s*([^>]+)>/gi
reMapKeyValue ==
  RegExp(Cat(<<Lit("MAP"), Star(WS), Ch({"<"}), Grp(1, Plus(NotCh({","}))),
               Ch({","}), Star(WS), Grp(2, Plus(NotCh({">"}))),
               Ch({">"})>>), "gi")


\* new RegExp(`\\b${word}\\b`, 'gi')
wordRe(word) == RegExp(Cat(<<WordB, Lit(word), WordB>>), "gi")

\* The typeMap of the convertDataTypes methods, in insertion order
typeMap ==
  <<<<"STRING", "VARCHAR">>, <<"INT", "NUMBER(38,0)">>,
    <<"INTEGER", "NUMBER(38,0)">>, <<"BIGINT", "NUMBER(38,0)">>,
    <<"SMALLINT", "NUMBER(5,0)">>, <<"TINYINT", "NUMBER(3,0)">>,
    <<"DOUBLE", "DOUBLE">>, <<"FLOAT", "FLOAT">>, <<"BOOLEAN", "BOOLEAN">>,
    <<"BINARY", "BINARY">>, <<"TIMESTAMP", "TIMESTAMP_NTZ">>,
    <<"DATE", "DATE">>>>

\* The formatMap of the convertFileFormats methods, in insertion order
formatMap ==
  <<<<"TEXTFILE", "CSV">>, <<"SEQUENCEFILE", "PARQUET">>,
    <<"RCFILE", "PARQUET">>, <<"ORC", "PARQUET">>, <<"PARQUET", "PARQUET">>,
    <<"AVRO", "PARQUET">>, <<"JSONFILE", "JSON">>>>

-----------------------------------------------------------------------------
(* The statements of the text-patching methods.  A method body is a list of *)
(* statements on the text sql and the warnings array, each of one of the    *)
(* forms below; a converter is the list of the statements of the methods it *)
(* calls, in call order, run on [sql, warnings].                            *)

\* No regular expression
NoRe == RegExp(Ch({}), "-")

Statement(op, when, msg, re, repl) ==
  [op |-> op, when |-> when, msg |-> msg, re |-> re, repl |-> repl]

\* sql = sql.replace(re, repl)
R(re, repl) == Statement("replace", NoRe, <<>>, re, repl)

\* if (sql.match(when)) { this.warnings.push(str) }
W(when, str) == Statement("replace", when, <<Chars(str)>>, NoRe, <<>>)

\* if (sql.match(when)) { this.warnings.push(str); sql = sql.replace(re, repl) }
WR(when, str, re, repl) == Statement("replace", when, <<Chars(str)>>, re, repl)

\* const match = sql.match(when); if (match) { sql = sql.replace(re, repl) },
\* where repl may hold K elements
MR(when, re, repl) == Statement("replace", when, <<>>, re, repl)

\* In a replacement, the text of group 1 of the match of the guard: as it
\* is ("raw"), as split(',').map(c => c.trim()).join(', ') ("trimmed") or as
\* split(',').map(col => col.trim().split(/\s+/)[0]).join(', ')
\* ("firstWords")
K(fmt) == [g |-> -3, s |-> <<>>, fn |-> fmt]

\* sql = sql.trim()
Trim == Statement("trim", NoRe, <<>>, NoRe, <<>>)

\* const matches = sql.match(re); if (matches) { matches.forEach(match =>
\*   this.warnings.push(`Removed Hive setting: ${match.trim()}`));
\*   sql = sql.replace(re, '') }
Setting(re) ==
  Statement("settings", NoRe, <<Chars("Removed Hive setting: ")>>, re, <<>>)

\* The body of convertOrderBy of lib/converter.ts
LastOrderBy(str) ==
  Statement("orderBy", NoRe, <<Chars(str)>>,
            RegExp(KW(<<"ORDER", "BY">>), "gi"), <<>>)

\* for each [from, to] of pairs, in order: sql.replace(/\bfrom\b/gi, to)
replaceWords(pairs) ==
  [k \in 1..Len(pairs) |-> R(wordRe(pairs[k][1]), <<T(pairs[k][2])>>)]

\* keywords.forEach(keyword => sql.replace(/\bkeyword\b/gi, keyword))
capitalize(keywords) ==
  [k \in 1..Len(keywords) |-> R(wordRe(keywords[k]), <<T(keywords[k])>>)]

\* col.split(/\s+/)[0] of a trimmed text
firstWord(col) ==
  SubSeq(col, 1, (CHOOSE p \in 1..(Len(col) + 1) :
                    /\ p > Len(col) \/ col[p] \in SpaceChars
                    /\ \A q \in 1..(p - 1) : col[q] \notin SpaceChars) - 1)

listed(fmt, cols) ==
  join([k \in 1..Len(cols) |->
          IF fmt = "firstWords" THEN firstWord(trim(cols[k]))
          ELSE trim(cols[k])],
       Chars(", "))

keyed(fmt, text) ==
  IF fmt = "raw" THEN text ELSE listed(fmt, splitChar(text, ","))

\* The replacement repl with its K elements computed from the match m of
\* the guard in s
bind(repl, s, m) ==
  [k \in 1..Len(repl) |->
     IF repl[k].g = -3
       THEN [g |-> -1, fn |-> "", s |-> keyed(repl[k].fn, group(s, m, 1))]
       ELSE repl[k]]

\* One warning for each of the matches ms
perMatch(prefix, s, ms) ==
  [k \in 1..Len(ms) |-> prefix \o trim(group(s, ms[k], 0))]

\* The statement stmt on st = [sql, warnings], m being the match of its
\* guard and ms all the matches of its expression
executed(st, stmt, m, ms) ==
  CASE stmt.op = "trim" -> [st EXCEPT !.sql = trim(@)]
    [] stmt.op = "settings" ->
         [sql |-> replace(st.sql, stmt.re, stmt.repl),
          warnings |-> st.warnings \o perMatch(stmt.msg[1], st.sql, ms)]
    [] stmt.op = "orderBy" /\ Len(ms) > 1 ->
         \* parts = sql.split(/ORDER\s+BY/i);
         \* sql = parts[0] + 'ORDER BY' + parts[parts.length - 1]
         [sql |-> SubSeq(st.sql, 1, ms[1].b - 1) \o Chars("ORDER BY")
                    \o SubSeq(st.sql, ms[Len(ms)].e, Len(st.sql)),
          warnings |-> st.warnings \o stmt.msg]
    [] stmt.op = "replace" /\ (stmt.when.f = "-" \/ m.ok) ->
         [sql |-> IF stmt.re.f = "-" THEN st.sql
                  ELSE replace(st.sql, stmt.re, bind(stmt.repl, st.sql, m)),
          warnings |-> st.warnings \o stmt.msg]
    [] OTHER -> st

execute(st, stmt) ==
  executed(st, stmt,
           IF stmt.when.f = "-" THEN NoMatch ELSE exec(stmt.when, st.sql, 1),
           IF stmt.op \in {"settings", "orderBy"}
             THEN matchesFrom(st.sql, stmt.re, 1, TRUE) ELSE <<>>)

\* The statements stmts[lo..hi], in order
RECURSIVE run(_, _, _, _)

runOn(half, stmts, lo, hi) == Then(half, run(half, stmts, lo, hi))

run(st, stmts, lo, hi) ==
  CASE lo > hi -> st
    [] lo = hi -> execute(st, stmts[lo])
    [] OTHER -> runOn(run(st, stmts, lo, (lo + hi) \div 2), stmts,
                      (lo + hi) \div 2 + 1, hi)

\* The methods whose statements are stmts, called on the text sql with no
\* warning pushed yet
patch(sql, stmts) == run([sql |-> sql, warnings |-> <<>>], stmts, 1, Len(stmts))

-----------------------------------------------------------------------------
(* The external libraries.  sql-formatter's format and node-sql-parser's     *)
(* parse are not part of the repository: a call either throws or returns a   *)
(* text the model does not interpret, the caller choosing which.             *)

\* format(sql, {...}) of sql-formatter
format(sql, throws) ==
  IF throws THEN Throw(Chars("Parse error"))
  ELSE Ok(<<"format:">> \o sql)

\* parser.astToSQL(parser.parse(sql)) of node-sql-parser
parseToSQL(sql, throws) ==
  IF throws THEN Throw(Chars("Syntax error"))
  ELSE Ok(<<"astToSQL:">> \o sql)

\* The result of a convert body: what it returned or threw, and the warnings
\* it pushed on the way
Done(st, r) ==
  [thrown |-> r.thrown, sql |-> r.value, message |-> r.message,
   warnings |-> st.warnings]

-----------------------------------------------------------------------------
(* SQLConverter of converter.worker.ts and of unnamed/part_004 *)

\* /SET\s+<prefix>[^;]+;/gi
setPattern(prefix) ==
  RegExp(Cat(<<Lit("SET"), Plus(WS), Lit(prefix), Plus(NotCh({";"})),
               Ch({";"})>>), "gi")

\* /SET\s+[^=;]+=\s*[^;]+;/gi
reAnySet ==
  RegExp(Cat(<<Lit("SET"), Plus(WS), Plus(NotCh({"=", ";"})), Ch({"="}),
               Star(WS), Plus(NotCh({";"})), Ch({";"})>>), "gi")

setPatterns ==
  <<setPattern("hive."), setPattern("mapred."), setPattern("tez."),
    setPattern("spark."), setPattern("hive.exec.dynamic.partition"),
    setPattern("hive.exec.parallel"), setPattern("hive.exec.compress."),
    setPattern("mapreduce.map.memory."), setPattern("mapreduce.reduce.memory."),
    setPattern("hive.auto.convert.join"), setPattern("hive.enforce.bucketing"),
    setPattern("hive.stats."), setPattern("hive.optimize."), reAnySet>>

\* /\/\*\+\s*(?:names)\([^)]*\)\s*\*\//
hintNode(names) ==
  Cat(<<Lit("/*+"), Star(WS), Words(names), Ch({"("}), Star(NotCh({")"})),
        Ch({")"}), Star(WS), Lit("*/")>>)

\* preprocessSQL of converter.worker.ts: setPatterns.forEach, the hints,
\* the comments, the white space
workerPreprocessSQL ==
  [k \in 1..Len(setPatterns) |-> Setting(setPatterns[k])] \o
  <<R(RegExp(hintNode(<<"MAPJOIN", "STREAMTABLE", "BROADCAST", "SKEWJOIN">>),
             "g"), <<>>),
    R(RegExp(Cat(<<Lit("--"), Star(Dot), Eol>>), "gm"), <<>>),
    R(RegExp(Cat(<<Lit("/*"), StarLazy(AnyCh), Lit("*/")>>), "g"), <<>>),
    R(RegExp(Plus(WS), "g"), <<T(" ")>>),
    Trim>>

\* convertCreateTable of both SQLConverter classes
sqlConverterCreateTable ==
  <<R(RegExp(createTableNode, "gi"), <<T("CREATE OR REPLACE TABLE "), G(1)>>),
    R(RegExp(partitionedByNode, "gi"), <<>>),
    WR(reClusteredBy,
       "Snowflake doesn't support CLUSTER BY. Converting to clustering keys.",
       reClusteredByBuckets, <<>>)>>

\* convertInsertStatements of both SQLConverter classes
sqlConverterInsertStatements ==
  <<R(reInsertIntoTable, <<T("INSERT INTO ")>>),
    WR(reInsertOverwrite, "Converting INSERT OVERWRITE to INSERT INTO",
       RegExp(insertOverwriteNode, "gi"), <<T("INSERT INTO "), G(1)>>),
    R(RegExp(partitionNode, "gi"), <<>>)>>

\* convertFunctions of both SQLConverter classes
sqlConverterFunctions ==
  <<R(RegExp(call0("unix_timestamp"), "gi"), <<F("sqlConverterUnixTimestamp")>>),
    R(RegExp(call1("from_unixtime"), "gi"), <<T("TO_TIMESTAMP("), G(1), T(")")>>),
    R(RegExp(call1("collect_set"), "gi"),
      <<T("ARRAY_AGG(DISTINCT "), G(1), T(")")>>),
    R(RegExp(call1("collect_list"), "gi"), <<T("ARRAY_AGG("), G(1), T(")")>>),
    R(RegExp(call2("get_json_object"), "gi"),
      <<T("GET_PATH(PARSE_JSON("), G(1), T("), "), G(2), T(")")>>)>>

\* convertLateralView of both SQLConverter classes
sqlConverterLateralView ==
  <<WR(reLateralViewExplode,
       "Converting LATERAL VIEW EXPLODE to Snowflake's FLATTEN",
       reLateralView, flattenJoin)>>

\* convertDataTypes of both SQLConverter classes
sqlConverterDataTypes == replaceWords(Append(typeMap, <<"DECIMAL", "NUMBER">>))

\* convertDistributeBy of both SQLConverter classes
sqlConverterDistributeBy ==
  <<WR(reDistributeBy("i"), "Converting DISTRIBUTE BY to ORDER BY",
       reDistributeBy("gi"), <<T("ORDER BY")>>)>>

\* convertComplexTypes of both SQLConverter classes
sqlConverterComplexTypes ==
  <<R(generic("ARRAY"), <<T("ARRAY")>>),
    R(reMapKeyValue, <<T("OBJECT")>>),
    R(generic("STRUCT"), <<T("OBJECT")>>)>>

\* /STORED\s+AS\s+<hiveFormat>/gi
reStoredAs(hiveFormat) ==
  RegExp(Cat(<<KW(<<"STORED", "AS">>), Plus(WS), Lit(hiveFormat)>>), "gi")

\* Object.entries(formatMap).forEach of convertFileFormats
mapFileFormat(hiveFormat, snowFormat) ==
  Statement("replace", reStoredAs(hiveFormat),
            <<Chars("Converting ") \o Chars(hiveFormat) \o Chars(" to ")
                \o Chars(snowFormat) \o Chars(" format")>>,
            reStoredAs(hiveFormat), <<T("FILE_FORMAT = "), T(snowFormat)>>)

\* convertFileFormats of both SQLConverter classes
sqlConverterFileFormats ==
  [k \in 1..Len(formatMap) |-> mapFileFormat(formatMap[k][1], formatMap[k][2])]
  \o <<R(reRowFormat, <<>>), R(reLocation, <<>>), R(reTblProperties, <<>>)>>

\* The methods both SQLConverter classes call between preprocessSQL and
\* formatSQL, in call order
sqlConverterMethods ==
  sqlConverterCreateTable \o sqlConverterInsertStatements
    \o sqlConverterFunctions \o sqlConverterLateralView
    \o sqlConverterDataTypes \o sqlConverterDistributeBy
    \o sqlConverterComplexTypes \o sqlConverterFileFormats

workerConvertBucketingAndSorting ==
  <<WR(reClusteredByColumns,
       "Converting CLUSTERED BY to Snowflake clustering keys",
       reClusteredByBuckets, <<T("CLUSTER BY ("), K("trimmed"), T(")")>>),
    R(reSortBy("gi"), <<T("ORDER BY")>>)>>

workerConvertSkewHandling ==
  <<WR(RegExp(Cat(<<Lit("/*+"), Star(WS), Lit("SKEWJOIN")>>), "i"),
       "Removing SKEWJOIN hint as Snowflake handles data skew automatically",
       RegExp(hintNode(<<"SKEWJOIN">>), "gi"), <<>>)>>

workerConvertRecursiveCTE ==
  <<W(RegExp(KW(<<"WITH", "RECURSIVE">>), "i"),
      "Snowflake supports recursive CTEs with similar syntax")>>

workerKeywords ==
  <<"SELECT", "FROM", "WHERE", "GROUP BY", "ORDER BY", "HAVING", "JOIN",
    "LEFT", "RIGHT", "INNER", "OUTER", "ON", "AND", "OR", "IN", "NOT",
    "EXISTS", "BETWEEN", "UNION", "ALL", "CREATE", "TABLE", "INSERT", "INTO",
    "VALUES", "UPDATE", "DELETE", "ALTER", "DROP", "CROSS JOIN", "FLATTEN",
    "ARRAY_AGG", "DISTINCT">>

\* /\b(FROM|WHERE|GROUP BY|HAVING|ORDER BY|LIMIT)\b/ with the given flags
reClauseStart(flags) ==
  RegExp(Cat(<<WordB,
               Grp(1, Words(<<"FROM", "WHERE", "GROUP BY", "HAVING",
                              "ORDER BY", "LIMIT">>)),
               WordB>>), flags)

\* /\b(LEFT|RIGHT|INNER|OUTER|CROSS)?\s*JOIN\b/ with the given flags
reJoin(flags) ==
  RegExp(Cat(<<WordB,
               Opt(Grp(1, Words(<<"LEFT", "RIGHT", "INNER", "OUTER",
                                  "CROSS">>))),
               Star(WS), Lit("JOIN"), WordB>>), flags)

\* /,\s*([\w\d_]+)/g
reListItem ==
  RegExp(Cat(<<Ch({","}), Star(WS), Grp(1, Plus(WordCh))>>), "g")

\* the newline and indentation replacements of the regex formatters
breakLines(flags) ==
  <<R(reClauseStart(flags), <<T("\n"), G(1)>>),
    R(reJoin(flags), <<T("\n"), G(0)>>),
    R(reListItem, <<T(",\n  "), G(1)>>)>>

\* formatSQL of converter.worker.ts
workerFormatSQL == capitalize(workerKeywords) \o breakLines("g")

\* return { success: true, sql: ..., warnings: this.warnings }
returned(st) == Done(st, Ok(st.sql))

\* The try block of SQLConverter.convert (converter.worker.ts)
workerConvert(hiveSQL) ==
  returned(patch(hiveSQL,
    workerPreprocessSQL \o sqlConverterMethods
      \o workerConvertBucketingAndSorting \o workerConvertSkewHandling
      \o workerConvertRecursiveCTE \o workerFormatSQL))

\* /^SET\s+[^;]+;/gm
reSetLine ==
  RegExp(Cat(<<Bol, Lit("SET"), Plus(WS), Plus(NotCh({";"})), Ch({";"})>>),
         "gm")

\* preprocessSQL of part_004
part4PreprocessSQL ==
  <<R(reSetLine, <<>>),
    R(RegExp(hintNode(<<"MAPJOIN", "STREAMTABLE", "BROADCAST">>), "g"), <<>>),
    R(RegExp(Plus(WS), "g"), <<T(" ")>>),
    Trim>>

part4Keywords ==
  workerKeywords \o
  <<"FILE_FORMAT", "CLUSTER BY", "TIMESTAMP_NTZ", "VARCHAR", "NUMBER",
    "DOUBLE", "FLOAT", "BOOLEAN", "BINARY", "ARRAY", "OBJECT", "PARSE_JSON",
    "GET_PATH">>

\* The end of formatSQL of part_004, formatted being what format returned
\* or threw: the catch block returns formattedSQL, which is declared inside
\* the try block and is not in scope there, so that a failure of format
\* ends in a ReferenceError
part4Formatted(formatted) ==
  IF formatted.thrown THEN Throw(Chars("formattedSQL is not defined"))
  ELSE formatted

\* formatSQL of part_004 on the text of st: the keywords, then format
part4FormatSQL(st, formatThrows) ==
  Done(st, part4Formatted(format(st.sql, formatThrows)))

\* The try block of SQLConverter.convert (part_004)
part4Convert(hiveSQL, formatThrows) ==
  part4FormatSQL(
    patch(hiveSQL, part4PreprocessSQL \o sqlConverterMethods
                     \o capitalize(part4Keywords)),
    formatThrows)

-----------------------------------------------------------------------------
(* HiveToSnowflakeConverter of lib/converter.ts *)

libPreprocessSQL ==
  <<R(reSetLine, <<>>),
    R(RegExp(hintNode(<<"MAPJOIN", "STREAMTABLE", "BROADCAST", "SKEWJOIN">>),
             "g"), <<>>),
    R(RegExp(Plus(WS), "g"), <<T(" ")>>),
    Trim>>

libConvertCreateTable ==
  <<R(RegExp(createTableNode, "gi"), <<T("CREATE OR REPLACE TABLE "), G(1)>>),
    R(RegExp(partitionedByNode, "gi"), <<>>),
    WR(reClusteredBy, "Snowflake doesn't support CLUSTER BY. Removing it.",
       reClusteredByBuckets, <<>>),
    R(reStoredAsAny, <<>>), R(reRowFormat, <<>>), R(reLocation, <<>>),
    R(reTblProperties, <<>>)>>

libConvertInsertStatements ==
  <<R(reInsertIntoTable, <<T("INSERT INTO ")>>),
    WR(reInsertOverwrite,
       "Snowflake doesn't support INSERT OVERWRITE. Converting to INSERT INTO.",
       RegExp(insertOverwriteNode, "gi"), <<T("INSERT INTO "), G(1)>>),
    R(RegExp(partitionNode, "gi"), <<>>)>>

\* /DATEDIFF\s*\(\s*SECOND\s*,\s*'1970-01-01'\s*,\s*([^)]+)\)/gi
reDateDiffEpoch ==
  RegExp(Cat(<<Lit("DATEDIFF"), Star(WS), Ch({"("}), Star(WS), Lit("SECOND"),
               Star(WS), Ch({","}), Star(WS), Lit("'1970-01-01'"), Star(WS),
               Ch({","}), Star(WS), Grp(1, Plus(NotCh({")"}))), Ch({")"})>>),
         "gi")

libConvertFunctions ==
  <<R(reDateDiffEpoch,
      <<T("DATEDIFF(SECOND, "), G(1), T(", CURRENT_TIMESTAMP())")>>),
    R(RegExp(callDays("date_add"), "gi"),
      <<T("DATEADD(DAY, "), G(2), T(", "), G(1), T(")")>>),
    R(RegExp(callDays("date_sub"), "gi"),
      <<T("DATEADD(DAY, -"), G(2), T(", "), G(1), T(")")>>),
    R(RegExp(call2("json_tuple"), "gi"), <<F("libJsonTuple")>>),
    R(RegExp(Lit("array_agg("), "gi"), <<T("ARRAY_AGG(")>>),
    R(RegExp(call1("collect_set"), "gi"),
      <<T("ARRAY_AGG(DISTINCT "), G(1), T(")")>>),
    R(RegExp(call1("collect_list"), "gi"), <<T("ARRAY_AGG("), G(1), T(")")>>)>>

libConvertLateralView ==
  <<WR(reLateralViewExplode,
       "Converting LATERAL VIEW EXPLODE to Snowflake's FLATTEN.",
       reLateralView, flattenJoin)>>

\* /RANGE\s+BETWEEN\s+([^)]+)\s+AND\s+([^)]+)/gi
reRangeBetween ==
  RegExp(Cat(<<KW(<<"RANGE", "BETWEEN">>), Plus(WS),
               Grp(1, Plus(NotCh({")"}))), Plus(WS), Lit("AND"), Plus(WS),
               Grp(2, Plus(NotCh({")"})))>>), "gi")

libConvertWindowFunctions ==
  <<WR(RegExp(KW(<<"RANGE", "BETWEEN">>), "i"),
       "Converting RANGE BETWEEN to ROWS BETWEEN for window functions.",
       reRangeBetween, <<T("ROWS BETWEEN "), G(1), T(" AND "), G(2)>>)>>

\* convertOrderBy: sql.split(/ORDER\s+BY/i) keeps the text before the first
\* ORDER BY and the text behind the last one
libConvertOrderBy ==
  <<LastOrderBy("Multiple ORDER BY clauses found. Keeping only the last one.")>>

libConvertDataTypes ==
  replaceWords(typeMap) \o
  <<R(generic("ARRAY"), <<T("ARRAY")>>),
    R(generic("MAP"), <<T("OBJECT")>>),
    R(generic("STRUCT"), <<T("OBJECT")>>)>>

libKeywords ==
  workerKeywords \o <<"PARSE_JSON", "GET_PATH", "DATEDIFF", "DATEADD">>

\* '  '.repeat(depth)
repeatIndent(depth) == [k \in 1..(2 * depth) |-> " "]

\* depth when line k of formatted is reached: the parentheses opened less
\* those closed on the lines before it
depthAt(formatted, k) ==
  Cardinality({j \in 1..nth(positions(formatted, NL), k - 1, 0) :
                 formatted[j] = "("})
    - Cardinality({j \in 1..nth(positions(formatted, NL), k - 1, 0) :
                     formatted[j] = ")"})

\* lines.map(line => '  '.repeat(depth) + line.trim()).join('\n');
\* String.prototype.repeat throws a RangeError on a negative count
indented(lines, depths) ==
  IF \E k \in 1..Len(lines) : depths[k] < 0
    THEN Throw(Chars("Invalid count value: ")
                 \o decimal(depths[CHOOSE k \in 1..Len(lines) :
                                     /\ depths[k] < 0
                                     /\ \A j \in 1..(k - 1) : depths[j] >= 0]))
    ELSE Ok(join([k \in 1..Len(lines) |->
                    repeatIndent(depths[k]) \o trim(lines[k])], <<NL>>))

\* "Indent subqueries" of formatSQL
indentSubqueries(formatted, lines) ==
  indented(lines, [k \in 1..Len(lines) |-> depthAt(formatted, k)])

\* formatSQL of lib/converter.ts: the statements before the indentation
libFormatSQL == <<Trim>> \o capitalize(libKeywords) \o breakLines("gi")

libReturned(st) == Done(st, indentSubqueries(st.sql, splitChar(st.sql, NL)))

\* The try block of HiveToSnowflakeConverter.convert (lib/converter.ts)
libConvert(hiveSQL) ==
  libReturned(patch(hiveSQL,
    libPreprocessSQL \o libConvertCreateTable \o libConvertInsertStatements
      \o libConvertFunctions \o libConvertLateralView
      \o libConvertWindowFunctions \o libConvertOrderBy \o libConvertDataTypes
      \o libFormatSQL))

-----------------------------------------------------------------------------
(* HiveToSnowflakeConverter of converter/index.ts *)

hivePreprocessSQL ==
  <<R(reSetLine, <<>>),
    R(RegExp(hintNode(<<"MAPJOIN", "STREAMTABLE", "BROADCAST">>), "g"), <<>>),
    R(RegExp(Cat(<<Lit("--"), Star(WS), Lit("#####")>>), "g"), <<T("--")>>)>>

hiveConvertFunctions ==
  <<R(RegExp(call0("unix_timestamp"), "gi"), <<F("hiveUnixTimestamp")>>),
    R(RegExp(callDays("date_add"), "gi"),
      <<T("dateadd(day, "), G(2), T(", "), G(1), T(")")>>),
    R(RegExp(callDays("date_sub"), "gi"),
      <<T("dateadd(day, -"), G(2), T(", "), G(1), T(")")>>),
    R(RegExp(call1("collect_set"), "gi"),
      <<T("array_agg(DISTINCT "), G(1), T(")")>>),
    R(RegExp(call1("collect_list"), "gi"), <<T("array_agg("), G(1), T(")")>>),
    R(RegExp(call2("get_json_object"), "gi"),
      <<T("get_path(parse_json("), G(1), T("), "), G(2), T(")")>>)>>

\* /OVER\s*\(([^)]+)\)/gi with the frame-rewriting callback
hiveConvertWindowFunctions ==
  <<R(RegExp(Cat(<<Lit("OVER"), Star(WS), Ch({"("}),
                   Grp(1, Plus(NotCh({")"}))), Ch({")"})>>), "gi"),
      <<F("hiveOverClause")>>)>>

hiveConvertDataTypes ==
  <<R(RegExp(Lit("STRING"), "gi"), <<T("VARCHAR")>>),
    R(RegExp(Alt(<<Lit("INT"), Lit("INTEGER")>>), "gi"), <<T("NUMBER(38,0)")>>),
    R(RegExp(Lit("BIGINT"), "gi"), <<T("NUMBER(38,0)")>>),
    R(RegExp(Lit("SMALLINT"), "gi"), <<T("NUMBER(5,0)")>>),
    R(RegExp(Lit("TINYINT"), "gi"), <<T("NUMBER(3,0)")>>),
    R(RegExp(Lit("DOUBLE"), "gi"), <<T("DOUBLE")>>),
    R(RegExp(Lit("FLOAT"), "gi"), <<T("FLOAT")>>),
    R(RegExp(Lit("BOOLEAN"), "gi"), <<T("BOOLEAN")>>),
    R(RegExp(Lit("BINARY"), "gi"), <<T("BINARY")>>),
    R(RegExp(Lit("TIMESTAMP"), "gi"), <<T("TIMESTAMP_NTZ")>>),
    R(RegExp(Lit("DATE"), "gi"), <<T("DATE")>>),
    R(RegExp(Cat(<<Lit("DECIMAL"), Ch({"("}), Grp(1, Plus(NotCh({")"}))),
                   Ch({")"})>>), "gi"), <<T("NUMBER("), G(1), T(")")>>),
    R(generic("ARRAY"), <<T("ARRAY")>>),
    R(generic("MAP"), <<T("OBJECT")>>),
    R(generic("STRUCT"), <<T("OBJECT")>>)>>

hiveConvertCreateTable ==
  <<R(RegExp(createTableNode, "i"), <<T("CREATE OR REPLACE TABLE "), G(1)>>),
    \* partitionMatch; the columns are
    \* partitionMatch[1].split(',').map(col => col.trim().split(/\s+/)[0])
    MR(RegExp(Cat(<<KW(<<"PARTITIONED", "BY">>), Star(WS), Ch({"("}),
                    Grp(1, Plus(NotCh({")"}))), Ch({")"})>>), "i"),
       RegExp(partitionedByNode, "i"),
       <<T("CLUSTER BY ("), K("firstWords"), T(")")>>),
    \* clusterMatch
    MR(reClusteredByColumns, RegExp(reClusteredByBuckets.r, "i"),
       <<T("CLUSTER BY ("), K("raw"), T(")")>>),
    R(reStoredAsAny, <<>>),
    R(reRowFormat, <<>>),
    R(RegExp(Cat(<<Lit("LOCATION"), Plus(WS),
                   Grp(1, Alt(<<Cat(<<Ch({"'"}), Plus(NotCh({"'"})),
                                      Ch({"'"})>>),
                                Cat(<<Ch({"\""}), Plus(NotCh({"\""})),
                                      Ch({"\""})>>)>>))>>), "gi"), <<>>),
    R(reTblProperties, <<>>)>>
  \o hiveConvertDataTypes

hiveConvertSelect ==
  <<R(reLateralView, flattenJoin),
    R(reDistributeBy("gi"), <<T("ORDER BY")>>),
    R(reSortBy("gi"), <<T("ORDER BY")>>)>>
  \o hiveConvertFunctions \o hiveConvertWindowFunctions

hiveConvertInsert ==
  <<R(RegExp(insertOverwriteNode, "i"), <<T("INSERT OVERWRITE INTO "), G(1)>>),
    R(RegExp(Cat(<<KW(<<"INSERT", "INTO">>), Plus(WS),
                   Opt(Cat(<<Lit("TABLE"), Plus(WS)>>)),
                   Grp(1, Plus(WordCh))>>), "i"), <<T("INSERT INTO "), G(1)>>),
    R(RegExp(partitionNode, "i"), <<>>)>>
  \o hiveConvertSelect

hiveConvertWithClause == hiveConvertFunctions \o hiveConvertWindowFunctions

\* The index of the first of the expressions res that matches in sql, one
\* more than their number when none does
firstMatching(sql, res) ==
  CHOOSE n \in 1..(Len(res) + 1) :
    /\ n > Len(res) \/ test(res[n], sql)
    /\ \A j \in 1..(n - 1) : ~test(res[j], sql)

\* convertStatement: the tests of the if chain, in order
hiveStatementTests ==
  <<RegExp(Cat(<<Lit("CREATE"), Plus(WS),
                 Opt(Cat(<<Lit("EXTERNAL"), Plus(WS)>>)), Lit("TABLE")>>), "i"),
    RegExp(Cat(<<Lit("INSERT"), Plus(WS),
                 Alt(<<Lit("INTO"), Lit("OVERWRITE")>>)>>), "i"),
    RegExp(Cat(<<Lit("WITH"), Plus(WS), Plus(WordCh), Plus(WS), Lit("AS")>>),
           "i")>>

\* and the method each of them leads to, convertSelect being the default
hiveStatementMethods ==
  <<hiveConvertCreateTable, hiveConvertInsert, hiveConvertWithClause,
    hiveConvertSelect>>

hiveConvertStatement(sql) ==
  patch(sql, hiveStatementMethods[firstMatching(sql, hiveStatementTests)]).sql

\* statements.filter(stmt => stmt.trim()).map(stmt =>
\*   this.convertStatement(stmt.trim())).join('\n\n')
hiveConvertStatements(statements) ==
  join([k \in 1..Len(statements) |-> hiveConvertStatement(trim(statements[k]))],
       <<NL, NL>>)

\* The try block of HiveToSnowflakeConverter.convert (converter/index.ts);
\* the class pushes no warning
hiveConvert(hiveSql, formatThrows) ==
  Done([warnings |-> <<>>],
       format(hiveConvertStatements(
                SelectSeq(hiveSplitStatements(
                            patch(hiveSql, hivePreprocessSQL).sql).statements,
                          LAMBDA stmt : trim(stmt) # <<>>)),
              formatThrows))

-----------------------------------------------------------------------------
(* The transformers of converter/transformers and of part_002 *)

\* [^\s(]+
tableName == Plus(NotCh(SpaceChars \cup {"("}))

\* HIVE_PATTERNS.CREATE_TABLE
CREATE_TABLE ==
  RegExp(Cat(<<Lit("CREATE"), Plus(WS), Opt(Cat(<<Lit("EXTERNAL"), Plus(WS)>>)),
               Lit("TABLE"), Plus(WS),
               Opt(Cat(<<KW(<<"IF", "NOT", "EXISTS">>), Plus(WS)>>)),
               Grp(1, tableName)>>), "i")

\* HIVE_PATTERNS.ALTER_TABLE
ALTER_TABLE ==
  RegExp(Cat(<<KW(<<"ALTER", "TABLE">>), Plus(WS),
               Grp(1, Plus(NotCh(SpaceChars))), Plus(WS),
               Grp(2, Words(<<"ADD", "DROP", "CHANGE", "RENAME", "SET",
                              "UNSET", "PARTITION">>))>>), "i")

\* HIVE_PATTERNS.INSERT_OVERWRITE
INSERT_OVERWRITE ==
  RegExp(Cat(<<KW(<<"INSERT", "OVERWRITE">>), Plus(WS),
               Opt(Cat(<<Lit("TABLE"), Plus(WS)>>)), Grp(1, tableName)>>), "i")

\* HIVE_PATTERNS.INSERT_INTO
INSERT_INTO ==
  RegExp(Cat(<<KW(<<"INSERT", "INTO">>), Plus(WS),
               Opt(Cat(<<Lit("TABLE"), Plus(WS)>>)), Grp(1, tableName)>>), "i")

\* HIVE_PATTERNS.MULTI_INSERT
MULTI_INSERT ==
  RegExp(Cat(<<Lit("FROM"), Plus(WS), Grp(1, Plus(NotCh(SpaceChars))),
               Plus(WS), Lit("INSERT"), Plus(WS),
               Alt(<<Lit("OVERWRITE"), Lit("INTO")>>)>>), "i")

\* HIVE_PATTERNS.DYNAMIC_PARTITION
DYNAMIC_PARTITION ==
  RegExp(Cat(<<Lit("PARTITION"), Star(WS), Ch({"("}),
               Grp(1, Plus(NotCh({")"}))), Ch({")"})>>), "i")

\* HIVE_PATTERNS.STORED_AS
STORED_AS ==
  RegExp(Cat(<<KW(<<"STORED", "AS">>), Plus(WS), Grp(1, Plus(WordCh))>>), "i")

HIVE_TO_SNOWFLAKE_STORAGE ==
  <<<<"TEXTFILE", "CSV">>, <<"SEQUENCEFILE", "PARQUET">>,
    <<"RCFILE", "PARQUET">>, <<"ORC", "PARQUET">>, <<"PARQUET", "PARQUET">>,
    <<"AVRO", "PARQUET">>, <<"JSONFILE", "JSON">>>>

dataTypeMappings ==
  <<<<"TINYINT", "NUMBER(3,0)">>, <<"SMALLINT", "NUMBER(5,0)">>,
    <<"INT", "NUMBER(10,0)">>, <<"INTEGER", "NUMBER(10,0)">>,
    <<"BIGINT", "NUMBER(38,0)">>, <<"FLOAT", "FLOAT">>,
    <<"DOUBLE", "DOUBLE">>, <<"DOUBLE PRECISION", "DOUBLE">>,
    <<"DECIMAL", "NUMBER">>, <<"NUMERIC", "NUMBER">>,
    <<"STRING", "VARCHAR">>, <<"VARCHAR", "VARCHAR">>, <<"CHAR", "CHAR">>,
    <<"TEXT", "TEXT">>, <<"TIMESTAMP", "TIMESTAMP_NTZ">>,
    <<"TIMESTAMP WITH LOCAL TIME ZONE", "TIMESTAMP_LTZ">>,
    <<"TIMESTAMP WITH TIME ZONE", "TIMESTAMP_TZ">>, <<"DATE", "DATE">>,
    <<"INTERVAL", "VARCHAR">>, <<"BOOLEAN", "BOOLEAN">>,
    <<"BOOL", "BOOLEAN">>, <<"BINARY", "BINARY">>,
    <<"VARBINARY", "BINARY">>, <<"ARRAY", "ARRAY">>, <<"MAP", "OBJECT">>,
    <<"STRUCT", "OBJECT">>, <<"UNIONTYPE", "VARIANT">>>>

\* table[key] || otherwise, for a table of [key, value] pairs
lookup(table, key, otherwise) ==
  IF \E k \in 1..Len(table) : Chars(table[k][1]) = key
    THEN Chars(table[CHOOSE k \in 1..Len(table) : Chars(table[k][1]) = key][2])
    ELSE otherwise

\* "Handle complex types"
complexType(type) ==
  IF includes(type, Chars("ARRAY<")) THEN Chars("ARRAY")
  ELSE IF includes(type, Chars("MAP<")) THEN Chars("OBJECT")
  ELSE IF includes(type, Chars("STRUCT<")) THEN Chars("OBJECT")
  ELSE type

\* "Map Hive type to Snowflake type"
snowflakeType(type) == lookup(dataTypeMappings, type, type)

\* The column of the definition def, parts being def.trim().split(/\s+/)
\* and commentMatch the match of the comment.  parts[1] is undefined when
\* def has a single token, and undefined.toUpperCase() throws a TypeError.
\* A column without a comment has the empty comment.
columnOf(def, parts, commentMatch) ==
  IF Len(parts) < 2
    THEN Throw(Chars("Cannot read properties of undefined (reading 'toUpperCase')"))
    ELSE Ok([name |-> parts[1],
             type |-> snowflakeType(complexType(toUpperCase(parts[2]))),
             comment |-> IF commentMatch.ok THEN group(def, commentMatch, 1)
                         ELSE <<>>])

\* The callback of defs.map in DDLTransformer.parseColumnDefinitions
parseColumnDefinition(def) ==
  columnOf(def, splitRe(trim(def), RegExp(Plus(WS), "")),
           exec(RegExp(Cat(<<Lit("COMMENT"), Plus(WS), Ch({"'", "\""}),
                             Grp(1, Plus(NotCh({"'", "\""}))),
                             Ch({"'", "\""})>>), "i"), def, 1))

\* What a map returns whose callback returned or threw cols[k] on the k-th
\* element: the first exception, else the values
mapped(cols) ==
  IF \E k \in 1..Len(cols) : cols[k].thrown
    THEN cols[CHOOSE k \in 1..Len(cols) :
                /\ cols[k].thrown
                /\ \A j \in 1..(k - 1) : ~cols[j].thrown]
    ELSE Ok([k \in 1..Len(cols) |-> cols[k].value])

\* DDLTransformer.parseColumnDefinitions
parseColumnDefinitions(defs) ==
  mapped([k \in 1..Len(defs) |-> parseColumnDefinition(defs[k])])

\* columnDefsMatch[1].split(',').map(col => col.trim())
trimmed(list) == [k \in 1..Len(list) |-> trim(list[k])]

\* tableDef.partitionColumns.map(col => col.name)
namesOf(columns) == [k \in 1..Len(columns) |-> columns[k].name]

\* DDLTransformer.generateSnowflakeCreateTable
generateSnowflakeCreateTable(tableDef) ==
  Chars("CREATE OR REPLACE TABLE ") \o tableDef.name \o Chars(" (") \o <<NL>>
    \o join([k \in 1..Len(tableDef.columns) |->
               Chars("  ") \o tableDef.columns[k].name \o Chars(" ")
                 \o tableDef.columns[k].type
                 \o (IF tableDef.columns[k].comment # <<>>
                       THEN Chars(" COMMENT '") \o tableDef.columns[k].comment
                              \o Chars("'")
                       ELSE <<>>)],
            <<",", NL>>)
    \o <<NL, ")">>
    \o (IF Len(tableDef.clusterBy) > 0
          THEN <<NL>> \o Chars("CLUSTER BY (")
                 \o join(tableDef.clusterBy, Chars(", ")) \o Chars(")")
          ELSE <<>>)
    \o (IF tableDef.format # <<>>
          THEN <<NL>> \o Chars("FILE_FORMAT = ") \o tableDef.format
          ELSE <<>>)

\* The TableDefinition DDLTransformer.transformCreateTable builds from the
\* matches ms and the columns, unless parsing the columns threw (an absent
\* format is empty, an absent clusterBy is the empty list)
tableDefinition(sql, ms, columns, partitionColumns) ==
  IF columns.thrown THEN columns
  ELSE IF partitionColumns.thrown THEN partitionColumns
  ELSE Ok([name |-> group(sql, ms[1], 1),
           columns |-> columns.value,
           external |-> ms[5].ok,
           clusterBy |-> namesOf(partitionColumns.value),
           format |-> IF ms[4].ok
                        THEN lookup(HIVE_TO_SNOWFLAKE_STORAGE,
                                    toUpperCase(group(sql, ms[4], 1)),
                                    Chars("CSV"))
                        ELSE <<>>])

\* return this.generateSnowflakeCreateTable(tableDef)
generated(tableDef) ==
  IF tableDef.thrown THEN tableDef
  ELSE Ok(generateSnowflakeCreateTable(tableDef.value))

\* The expressions DDLTransformer.transformCreateTable matches sql with:
\* tableMatch, columnDefsMatch (/\(([\s\S]+?)\)/), partitionMatch,
\* storageMatch and the test of external
createTableMatches ==
  <<CREATE_TABLE,
    RegExp(Cat(<<Ch({"("}), Grp(1, PlusLazy(AnyCh)), Ch({")"})>>), ""),
    DYNAMIC_PARTITION,
    STORED_AS,
    RegExp(KW(<<"CREATE", "EXTERNAL", "TABLE">>), "i")>>

\* DDLTransformer.transformCreateTable, ms being the matches in sql of
\* createTableMatches
createTable(sql, ms) ==
  IF ~ms[1].ok THEN Ok(sql)
  ELSE generated(
         tableDefinition(sql, ms,
           IF ms[2].ok
             THEN parseColumnDefinitions(
                    trimmed(splitChar(group(sql, ms[2], 1), ",")))
             ELSE Ok(<<>>),
           IF ms[3].ok
             THEN parseColumnDefinitions(splitChar(group(sql, ms[3], 1), ","))
             ELSE Ok(<<>>)))

\* DDLTransformer.transformCreateTable
transformCreateTable(sql) ==
  createTable(sql, [k \in 1..Len(createTableMatches) |->
                     exec(createTableMatches[k], sql, 1)])

\* DDLTransformer.transformAlterTable: the tests of the if chain
\* (sql.includes(...)), in order
alterTableTests ==
  <<RegExp(Lit("ADD COLUMNS"), ""), RegExp(Lit("CHANGE COLUMN"), ""),
    RegExp(Lit("SET TBLPROPERTIES"), "")>>

\* and the replacement each of them leads to
alterTableMethods ==
  <<<<R(RegExp(Lit("ADD COLUMNS"), ""), <<T("ADD")>>)>>,
    <<R(RegExp(Cat(<<Lit("CHANGE COLUMN"), Plus(WS), Grp(1, Plus(WordCh)),
                     Plus(WS), Grp(2, Plus(WordCh))>>), ""),
        <<T("RENAME COLUMN "), G(1), T(" TO "), G(2)>>)>>,
    <<R(RegExp(Cat(<<Lit("SET TBLPROPERTIES"), Star(WS), Ch({"("}),
                     Grp(1, StarLazy(AnyCh)), Ch({")"})>>), ""),
        <<T("COMMENT = "), G(1)>>)>>,
    <<>>>>

transformAlterTable(sql) ==
  patch(sql, alterTableMethods[firstMatching(sql, alterTableTests)]).sql

\* The return of DMLTransformer.transformMultiInsert
multiInsert(sql, fromMatch, insertClauses) ==
  IF ~fromMatch.ok THEN sql
  ELSE join([k \in 1..Len(insertClauses) |->
               Chars("INSERT ")
                 \o (IF startsWith(trim(insertClauses[k]), Chars("OVERWRITE"))
                       THEN Chars("OVERWRITE INTO") ELSE Chars("INTO"))
                 \o Chars(" ") \o trim(insertClauses[k]) \o <<NL>>
                 \o Chars("FROM ") \o group(sql, fromMatch, 1)],
            <<";", NL, NL>>)

\* DMLTransformer.transformMultiInsert
transformMultiInsert(sql) ==
  multiInsert(sql,
    exec(RegExp(Cat(<<Lit("FROM"), Plus(WS), Grp(1, Plus(NotCh(SpaceChars))),
                      Plus(WS)>>), "i"), sql, 1),
    Tail(splitRe(sql, RegExp(Cat(<<Lit("INSERT"), Plus(WS),
                                   Alt(<<Lit("INTO"), Lit("OVERWRITE")>>)>>),
                             "i"))))

\* DMLTransformer.transformInsert: "Handle INSERT OVERWRITE" and "Handle
\* dynamic partitioning"
insertStatements ==
  <<MR(INSERT_OVERWRITE,
       RegExp(Cat(<<KW(<<"INSERT", "OVERWRITE">>), Plus(WS),
                    Opt(Cat(<<Lit("TABLE"), Plus(WS)>>))>>), "i"),
       <<T("INSERT OVERWRITE INTO ")>>),
    MR(DYNAMIC_PARTITION, DYNAMIC_PARTITION, <<>>)>>

\* "Handle multi-insert statements"
multiInsertOr(sql) ==
  IF test(MULTI_INSERT, sql) THEN transformMultiInsert(sql) ELSE sql

\* DMLTransformer.transformInsert
transformInsert(sql) == multiInsertOr(patch(sql, insertStatements).sql)

\* /UPDATE\s+([^\s]+)\s+(\w+)\s+JOIN\s+([^\s]+)\s+(\w+)\s+ON\s+(.+?)\s+SET\s+(.+?)
\* (?:\s+WHERE\s+(.+))?$/i
reUpdateJoin ==
  RegExp(Cat(<<Lit("UPDATE"), Plus(WS), Grp(1, Plus(NotCh(SpaceChars))),
               Plus(WS), Grp(2, Plus(WordCh)), Plus(WS), Lit("JOIN"), Plus(WS),
               Grp(3, Plus(NotCh(SpaceChars))), Plus(WS), Grp(4, Plus(WordCh)),
               Plus(WS), Lit("ON"), Plus(WS), Grp(5, PlusLazy(Dot)), Plus(WS),
               Lit("SET"), Plus(WS), Grp(6, PlusLazy(Dot)),
               Opt(Cat(<<Plus(WS), Lit("WHERE"), Plus(WS),
                         Grp(7, Plus(Dot))>>)),
               Eol>>), "i")

\* The return of DMLTransformer.transformUpdateWithJoin, matches being what
\* sql.match returned
mergeSql(sql, matches) ==
  IF ~matches.ok THEN sql
  ELSE Chars("MERGE INTO ") \o group(sql, matches, 1) \o Chars(" ")
         \o group(sql, matches, 2) \o <<NL>>
         \o Chars("USING ") \o group(sql, matches, 3) \o Chars(" ")
         \o group(sql, matches, 4) \o <<NL>>
         \o Chars("ON ") \o group(sql, matches, 5) \o <<NL>>
         \o Chars("WHEN MATCHED ")
         \o (IF group(sql, matches, 7) # <<>>
               THEN Chars("AND ") \o group(sql, matches, 7) \o Chars(" ")
               ELSE <<>>)
         \o Chars("THEN UPDATE SET ") \o group(sql, matches, 6)

\* DMLTransformer.transformUpdateWithJoin
transformUpdateWithJoin(sql) == mergeSql(sql, exec(reUpdateJoin, sql, 1))

\* DMLTransformer.transformUpdate
transformUpdate(sql) ==
  IF includes(sql, Chars("JOIN")) THEN transformUpdateWithJoin(sql) ELSE sql

\* /words\s+([^;\s]+)/gi
reClauseBy(words) ==
  RegExp(Cat(<<KW(words), Plus(WS),
               Grp(1, Plus(NotCh(SpaceChars \cup {";"})))>>), "gi")

\* OptimizationTransformer.transformDistributeBy
transformDistributeBy ==
  <<R(reClauseBy(<<"DISTRIBUTE", "BY">>), <<T("ORDER BY "), G(1)>>)>>

\* OptimizationTransformer.transformClusterBy
transformClusterBy ==
  <<R(reClauseBy(<<"CLUSTER", "BY">>),
      <<T("PARTITION BY "), G(1), T(" ORDER BY "), G(1)>>)>>

\* OptimizationTransformer.transformSortBy
transformSortBy ==
  <<R(reClauseBy(<<"SORT", "BY">>), <<T("ORDER BY "), G(1)>>)>>

\* OptimizationTransformer.removeHints
removeHints ==
  <<R(RegExp(hintNode(<<"MAPJOIN">>), "gi"), <<>>),
    R(RegExp(hintNode(<<"STREAMTABLE">>), "gi"), <<>>),
    R(RegExp(hintNode(<<"BROADCAST">>), "gi"), <<>>)>>

-----------------------------------------------------------------------------
(* SQLParser of converter/index.ts *)

\* "Apply additional transformations" to what the parser returned or threw
transformed(convertedSql) ==
  IF convertedSql.thrown THEN convertedSql
  ELSE Ok(patch(convertedSql.value,
                removeHints \o transformDistributeBy \o transformClusterBy
                  \o transformSortBy).sql)

\* SQLParser.convertStatement: the tests of the if chain, in order
parserStatementTests ==
  <<CREATE_TABLE, ALTER_TABLE, INSERT_OVERWRITE, INSERT_INTO>>

\* The branch of SQLParser.convertStatement behind the n-th test (5: none
\* of them holds)
convertBranch(sql, n, parseThrows) ==
  CASE n = 1 -> transformCreateTable(sql)
    [] n = 2 -> Ok(transformAlterTable(sql))
    [] n \in {3, 4} -> Ok(transformInsert(sql))
    [] OTHER -> transformed(parseToSQL(sql, parseThrows))

\* SQLParser.convertStatement; parseThrows: whether the parser rejects the
\* statement
parserConvertStatement(sql, parseThrows) ==
  convertBranch(sql, firstMatching(sql, parserStatementTests), parseThrows)

\* SQLParser.formatSQL: the formatter is called unguarded
parserFormatSQL(sql, formatThrows) == format(sql, formatThrows)

\* The replacements of SQLParser.fallbackConversion
fallbackStatements ==
  <<R(reDistributeBy("gi"), <<T("ORDER BY")>>),
    R(RegExp(Cat(<<KW(<<"LATERAL", "VIEW", "EXPLODE">>), Star(WS),
                   Ch({"("}), Grp(1, Plus(NotCh({")"}))), Ch({")"}),
                   Plus(WS), Grp(2, Plus(Ch(Letters \cup DigitChars \cup {"_"}))),
                   Plus(WS), Lit("AS"), Plus(WS),
                   Grp(3, Plus(Ch(Letters \cup DigitChars \cup {"_"})))>>),
             "gi"), flattenJoin),
    R(RegExp(call1("collect_set"), "gi"),
      <<T("array_agg(DISTINCT "), G(1), T(")")>>),
    R(RegExp(call0("unix_timestamp"), "gi"), <<F("fallbackUnixTimestamp")>>),
    R(RegExp(callDays("date_add"), "gi"),
      <<T("dateadd(day, "), G(2), T(", "), G(1), T(")")>>),
    R(RegExp(callDays("date_sub"), "gi"),
      <<T("dateadd(day, -"), G(2), T(", "), G(1), T(")")>>)>>

\* SQLParser.fallbackConversion
fallbackConversion(sql, formatThrows) ==
  parserFormatSQL(patch(sql, fallbackStatements).sql, formatThrows)

\* [...new Set(list)]: the distinct elements in the order of their first
\* occurrence
distinct(list) ==
  [n \in 1..Cardinality(Range(list)) |->
     list[nth({k \in 1..Len(list) : \A j \in 1..(k - 1) : list[j] # list[k]},
              n, 0)]]

\* The expressions of extractTablesReferenced, extractFunctionsUsed and
\* extractDataTypesUsed
extractMatches ==
  <<RegExp(Cat(<<Words(<<"FROM", "JOIN", "INTO", "UPDATE", "TABLE">>),
                 Plus(WS),
                 Grp(1, Cat(<<Ch(Letters \cup {"_"}), Star(WordCh)>>))>>),
           "gi"),
    RegExp(Cat(<<Ch(Letters \cup {"_"}), Star(WordCh), Star(WS), Ch({"("})>>),
           "g"),
    RegExp(Cat(<<WordB,
                 Words(<<"VARCHAR", "NUMBER", "TIMESTAMP", "DATE", "BOOLEAN",
                         "ARRAY", "OBJECT">>), WordB>>), "gi")>>

\* m.split(/\s+/).pop()
lastWord(m) ==
  SubSeq(m, (CHOOSE p \in 0..Len(m) :
               /\ p = 0 \/ m[p] \in SpaceChars
               /\ \A q \in (p + 1)..Len(m) : m[q] \notin SpaceChars) + 1,
         Len(m))

\* m.replace(/[\s(]/g, '')
functionName(m) == SelectSeq(m, LAMBDA ch : ch \notin SpaceChars \cup {"("})

\* w.replace(/^Warning: /, '')
feature(w) ==
  IF startsWith(w, Chars("Warning: ")) THEN SubSeq(w, 10, Len(w)) ELSE w

\* SQLParser.generateMetadata, found being the matches in sql of
\* extractMatches and warnings being this.warnings
metadataOf(found, warnings) ==
  [tablesReferenced |->
     distinct([k \in 1..Len(found[1]) |-> lastWord(found[1][k])]),
   functionsUsed |->
     distinct([k \in 1..Len(found[2]) |-> functionName(found[2][k])]),
   dataTypesUsed |-> distinct(found[3]),
   unsupportedFeatures |-> [k \in 1..Len(warnings) |-> feature(warnings[k])]]

generateMetadata(sql, warnings) ==
  metadataOf([k \in 1..Len(extractMatches) |-> matchAll(sql, extractMatches[k])],
             warnings)

\* The options a SQLParser is constructed with; an absent member is
\* "undefined".  handleUnsupported is the member ConversionOptions declares,
\* handleErrors the one SQLParser reads.
optionsOf(handleUnsupported, handleErrors) ==
  [handleUnsupported |-> handleUnsupported, handleErrors |-> handleErrors]

\* this.options as the constructor of SQLParser sets it:
\* {preserveComments: true, handleErrors: 'warn', validateSyntax: true,
\*  ...options}
parserOptions(options) ==
  [options EXCEPT !.handleErrors = IF @ = "undefined" THEN "warn" ELSE @]

\* The catch block of the callback of statements.map, converted being what
\* convertStatement returned or threw.  caught: whether the block was
\* entered; failed: whether the formatter threw in the fallback conversion
parserCaught(stmt, k, options, ext, converted) ==
  IF ~converted.thrown \/ options.handleErrors = "throw"
    THEN [r |-> converted, warnings |-> <<>>, caught |-> converted.thrown,
          failed |-> FALSE]
    ELSE [r |-> fallbackConversion(stmt, k \in ext.format),
          warnings |->
            <<Chars("Warning: Using fallback conversion for statement: ")
                \o converted.message>>,
          caught |-> TRUE, failed |-> k \in ext.format]

\* The callback of statements.map in SQLParser.convert on the k-th statement:
\* what it returned or threw, and the warnings it pushed.  ext.parse holds the
\* statements the parser rejects, ext.format the calls of the formatter that
\* throw (k: in the fallback conversion of statement k).
parserMapStatement(stmt, k, options, ext) ==
  parserCaught(stmt, k, options, ext,
               parserConvertStatement(stmt, k \in ext.parse))

\* What the try block of SQLParser.convert returned or threw (r), the
\* warnings it pushed and the text it left in this.sql; raised: the
\* statements on which convertStatement threw; formatFailed: whether a call
\* of the formatter threw
parserTried(sql, r, warnings, raised, formatFailed) ==
  [thrown |-> r.thrown, sql |-> r.value, message |-> r.message,
   warnings |-> warnings, thisSql |-> sql,
   metadata |-> IF r.thrown THEN <<>> ELSE generateMetadata(r.value, warnings),
   raised |-> raised, formatFailed |-> formatFailed]

\* The try block behind statements.map: the callback threw on statement
\* number first (none: one more than their number), which ended the map;
\* else the statements are joined and formatted
parserJoin(sql, each, first, ext) ==
  parserTried(sql,
    IF first <= Len(each) THEN each[first].r
    ELSE parserFormatSQL(join([k \in 1..Len(each) |-> each[k].r.value],
                              <<NL, NL>>),
                         0 \in ext.format),
    Flatten([k \in 1..Len(each) |->
               IF k <= first THEN each[k].warnings ELSE <<>>]),
    {k \in 1..Len(each) : k <= first /\ each[k].caught},
    IF first <= Len(each) THEN each[first].failed ELSE 0 \in ext.format)

parserMapped(sql, each, ext) ==
  parserJoin(sql, each,
             CHOOSE n \in 1..(Len(each) + 1) :
               /\ n > Len(each) \/ each[n].r.thrown
               /\ \A j \in 1..(n - 1) : ~each[j].r.thrown,
             ext)

parserStatements(sql, statements, options, ext) ==
  parserMapped(sql,
    [k \in 1..Len(statements) |->
       parserMapStatement(statements[k], k, options, ext)],
    ext)

\* The try block of SQLParser.convert on this.sql: what it returned or threw,
\* the warnings it pushed and the text it left in this.sql (0 \in ext.format:
\* the formatter throws on the joined statements)
parserTry(sql, options, ext) ==
  parserStatements(sql, parserSplitStatements(sql).statements, options, ext)

parserConvert(sql0, options, ext) ==
  parserTry(parserPreprocessSQL(sql0), options, ext)

-----------------------------------------------------------------------------
(* State *)

VARIABLES
  input,    \* the argument of the function under check
  pc,       \* which function has been applied to it ("start": none yet)
  output,   \* what the function returned
  heap,     \* the arrays allocated so far; an array is known by its index
  objs,     \* the converter instances constructed so far
  results,  \* the ConversionResults returned so far, in the order of return
  calls,    \* how many times a convert method has been called
  escaped   \* whether an exception has propagated out of a convert method

fvars == <<input, pc, output>>

cvars == <<heap, objs, results, calls, escaped>>

vars == <<input, pc, output, heap, objs, results, calls, escaped>>

-----------------------------------------------------------------------------
(* Converter instances and their convert methods *)

\* The scripts given to the converters
Scripts ==
  {Chars("SELECT a FROM t"),
   Chars("CREATE TABLE t (a DECIMAL(10,2));INSERT OVERWRITE TABLE t SELECT 'a'"),
   Chars("SELECT a FROM t /* x"),
   Chars("SELECT 'a"),
   Chars("/*+*/SET CREATE TABLE t(a DECIMAL(1,2));SELECT 1")}

\* The options given to the constructor of SQLParser
Options ==
  {optionsOf("undefined", "undefined"), optionsOf("warn", "undefined"),
   optionsOf("error", "undefined"), optionsOf("undefined", "throw")}

\* The number of constructor calls and convert calls of a run
MaxOps == 3

\* The ways the parser and the formatter can behave during one call of
\* SQLParser.convert on a text of n statements: parse holds the statements
\* the parser rejects, format the calls of the formatter that throw (k: in
\* the fallback conversion of statement k, 0: on the joined statements)
ExtsOf(n) == {[parse |-> p, format |-> f] : p \in SUBSET (1..n),
                                            f \in SUBSET (0..n)}

Exts(sql) == ExtsOf(Len(parserSegment(sql).statements))

\* The texts this.sql of a SQLParser goes through: the constructor trims,
\* every convert preprocesses again
RECURSIVE thisSqls(_, _)
thisSqls(sqls, n) ==
  IF n = 0 THEN sqls
  ELSE sqls \cup thisSqls({parserPreprocessSQL(s) : s \in sqls}, n - 1)

ParserTexts == thisSqls({trim(s) : s \in Scripts}, MaxOps)

\* The convert bodies on the scripts, computed once
hiveTable ==
  {[key |-> <<s, f>>, r |-> hiveConvert(s, f)] : s \in Scripts, f \in BOOLEAN}

part4Table ==
  {[key |-> <<s, f>>, r |-> part4Convert(s, f)] : s \in Scripts, f \in BOOLEAN}

workerTable == {[key |-> s, r |-> workerConvert(s)] : s \in Scripts}

libTable == {[key |-> s, r |-> libConvert(s)] : s \in Scripts}

parserTable ==
  UNION {{[key |-> <<s, h, e>>,
           r |-> parserConvert(s, [handleErrors |-> h], e)] :
            h \in {"warn", "throw"}, e \in Exts(s)} : s \in ParserTexts}

\* table[key]
memo(table, key) == (CHOOSE e \in table : e.key = key).r

\* A member of a record that is absent, and one that is present
undefined == [defined |-> FALSE, value |-> <<>>]
defined(v) == [defined |-> TRUE, value |-> v]

\* A catch block that throws the error it caught
rethrow(error) == Throw(error.message)

\* error instanceof Error ? error.message : String(error) in the catch block
\* of each convert method; the block returns a result and throws nothing
hiveCatch(error) == Ok(error.message)
parserCatch(error) == Ok(error.message)
workerCatch(error) == Ok(error.message)
part4Catch(error) == Ok(error.message)
libCatch(error) == Ok(error.message)

Init ==
  /\ input = <<>>
  /\ pc = "run"
  /\ output = <<>>
  /\ heap = <<>>
  /\ objs = <<>>
  /\ results = <<>>
  /\ calls = 0
  /\ escaped = FALSE

MoreOps == Len(objs) + calls < MaxOps

\* What the constructors but that of SQLParser leave in options
NoOptions == optionsOf("undefined", "undefined")

\* new HiveToSnowflakeConverter(hiveSql) of converter/index.ts
NewHive ==
  /\ MoreOps
  /\ \E hiveSql \in Scripts :
       /\ heap' = Append(heap, <<>>)
       /\ objs' = Append(objs, [cls |-> "hive", sql |-> hiveSql,
                                options |-> NoOptions,
                                warnings |-> Len(heap) + 1, errors |-> 0])
  /\ UNCHANGED <<fvars, results, calls, escaped>>

\* new SQLParser(sql, options)
NewParser ==
  /\ MoreOps
  /\ \E sql \in Scripts, options \in Options :
       /\ heap' = heap \o <<<<>>, <<>>>>
       /\ objs' = Append(objs, [cls |-> "parser", sql |-> trim(sql),
                                options |-> parserOptions(options),
                                warnings |-> Len(heap) + 1,
                                errors |-> Len(heap) + 2])
  /\ UNCHANGED <<fvars, results, calls, escaped>>

\* new SQLConverter() of converter.worker.ts and of part_004,
\* new HiveToSnowflakeConverter() of lib/converter.ts
NewConverter ==
  /\ MoreOps
  /\ \E cls \in {"worker", "part4", "lib"} :
       /\ heap' = Append(heap, <<>>)
       /\ objs' = Append(objs, [cls |-> cls, sql |-> <<>>,
                                options |-> NoOptions,
                                warnings |-> Len(heap) + 1, errors |-> 0])
  /\ UNCHANGED <<fvars, results, calls, escaped>>

\* The heap once the try block, which ended as r says, has pushed its
\* warnings onto this.warnings
Pushed(this, r) == [heap EXCEPT ![this.warnings] = @ \o r.warnings]

\* The heap after the catch block, entered when the try block threw and ended
\* as c says: SQLParser pushes the message onto this.errors, the other
\* classes make a new array of it
Caught(this, pushed, r, c) ==
  IF ~r.thrown \/ c.thrown THEN pushed
  ELSE IF this.errors # 0
    THEN [pushed EXCEPT ![this.errors] = Append(@, c.value)]
  ELSE Append(pushed, <<c.value>>)

\* The array the member errors of the result is (0: the member is absent)
ErrorsOf(this, r, after) ==
  IF this.errors # 0 THEN this.errors
  ELSE IF r.thrown THEN Len(after) ELSE 0

\* unsupportedFeatures of generateMetadata: this.warnings.map(w =>
\* w.replace(/^Warning: /, '')), the array holding the warnings of the
\* earlier calls before those of this one
Metadata(this, r) ==
  IF this.cls = "parser" /\ ~r.thrown
    THEN defined([r.metadata EXCEPT !.unsupportedFeatures =
                    [k \in 1..Len(heap[this.warnings]) |->
                       feature(heap[this.warnings][k])] \o @])
    ELSE undefined

\* The ConversionResult a convert method returns.  It holds this.warnings
\* itself, and this.errors (SQLParser) or the new array with the message (the
\* other classes).  Kept with it for the record: the instance, the text and
\* the options of the call, the warnings the call pushed, the contents of the
\* lists at the return, the statements on which convertStatement threw and
\* whether a call of the formatter threw.
Result(o, this, sql, r, after, errors, history) ==
  [obj |-> o, cls |-> this.cls, input |-> sql, options |-> this.options,
   success |-> ~r.thrown,
   sql |-> IF r.thrown THEN undefined ELSE defined(r.sql),
   warnings |-> this.warnings,
   errors |-> errors,
   metadata |-> Metadata(this, r),
   pushed |-> r.warnings,
   returned |-> [warnings |-> after[this.warnings],
                 errors |-> IF errors = 0 THEN <<>> ELSE after[errors]],
   raised |-> history.raised,
   formatFailed |-> history.formatFailed]

\* The end of a call of convert: the result is returned, unless the catch
\* block threw
Return(r, c, after, result) ==
  /\ heap' = after
  /\ calls' = calls + 1
  /\ escaped' = (escaped \/ (r.thrown /\ c.thrown))
  /\ results' = IF r.thrown /\ c.thrown THEN results
                ELSE Append(results, result)

Returning(o, sql, r, c, after, history) ==
  Return(r, c, after,
         Result(o, objs[o], sql, r, after, ErrorsOf(objs[o], r, after),
                history))

\* A call of the convert method of instance o on the text sql, whose try
\* block ended as r says and whose catch block, when entered, as c says
Convert(o, sql, r, c, history) ==
  Returning(o, sql, r, c, Caught(objs[o], Pushed(objs[o], r), r, c), history)

\* HiveToSnowflakeConverter.convert of converter/index.ts, its try block
\* ending as r says
HiveReturns(o, r, formatThrows) ==
  Convert(o, objs[o].sql, r, hiveCatch(r),
          [raised |-> {}, formatFailed |-> formatThrows])

ConvertHive ==
  /\ MoreOps
  /\ \E o \in 1..Len(objs), formatThrows \in BOOLEAN :
       /\ objs[o].cls = "hive"
       /\ HiveReturns(o, memo(hiveTable, <<objs[o].sql, formatThrows>>),
                      formatThrows)
  /\ UNCHANGED <<fvars, objs>>

\* SQLParser.convert, its try block ending as r says
ParserReturns(o, r) ==
  /\ Convert(o, objs[o].sql, r, parserCatch(r),
             [raised |-> r.raised, formatFailed |-> r.formatFailed])
  /\ objs' = [objs EXCEPT ![o].sql = r.thisSql]

ConvertParser ==
  /\ MoreOps
  /\ \E o \in 1..Len(objs) :
       /\ objs[o].cls = "parser"
       /\ \E ext \in Exts(objs[o].sql) :
            ParserReturns(o, memo(parserTable,
                                  <<objs[o].sql, objs[o].options.handleErrors,
                                    ext>>))
  /\ UNCHANGED fvars

\* SQLConverter.convert of converter.worker.ts, its try block ending as r says
WorkerReturns(o, hiveSQL, r) ==
  Convert(o, hiveSQL, r, workerCatch(r),
          [raised |-> {}, formatFailed |-> FALSE])

ConvertWorker ==
  /\ MoreOps
  /\ \E o \in 1..Len(objs), hiveSQL \in Scripts :
       /\ objs[o].cls = "worker"
       /\ WorkerReturns(o, hiveSQL, memo(workerTable, hiveSQL))
  /\ UNCHANGED <<fvars, objs>>

\* SQLConverter.convert of part_004, its try block ending as r says
Part4Returns(o, hiveSQL, r, formatThrows) ==
  Convert(o, hiveSQL, r, part4Catch(r),
          [raised |-> {}, formatFailed |-> formatThrows])

ConvertPart4 ==
  /\ MoreOps
  /\ \E o \in 1..Len(objs), hiveSQL \in Scripts, formatThrows \in BOOLEAN :
       /\ objs[o].cls = "part4"
       /\ Part4Returns(o, hiveSQL, memo(part4Table, <<hiveSQL, formatThrows>>),
                       formatThrows)
  /\ UNCHANGED <<fvars, objs>>

\* HiveToSnowflakeConverter.convert of lib/converter.ts, its try block ending
\* as r says
LibReturns(o, hiveSQL, r) ==
  Convert(o, hiveSQL, r, libCatch(r), [raised |-> {}, formatFailed |-> FALSE])

ConvertLib ==
  /\ MoreOps
  /\ \E o \in 1..Len(objs), hiveSQL \in Scripts :
       /\ objs[o].cls = "lib"
       /\ LibReturns(o, hiveSQL, memo(libTable, hiveSQL))
  /\ UNCHANGED <<fvars, objs>>

Next ==
  \/ NewHive
  \/ NewParser
  \/ NewConverter
  \/ ConvertHive
  \/ ConvertParser
  \/ ConvertWorker
  \/ ConvertPart4
  \/ ConvertLib

Spec == Init /\ [][Next]_vars

-----------------------------------------------------------------------------
(* Segmentation of bounded texts *)

\* The pieces the segmenter inputs are built of
SegPieces ==
  {Chars("a"), Chars(";"), Chars("'"), Chars("--"), <<NL>>, Chars("/*"),
   Chars("*/"), Chars("("), Chars(")")}

MaxSegPieces == 4

Texts(parts, n) ==
  {Flatten(ps) : ps \in UNION {[1..k -> parts] : k \in 0..n}}

\* No converter is constructed while a single function is checked
NoConverters ==
  /\ heap = <<>>
  /\ objs = <<>>
  /\ results = <<>>
  /\ calls = 0
  /\ escaped = FALSE

SegInit ==
  /\ input \in Texts(SegPieces, MaxSegPieces)
  /\ pc = "start"
  /\ output = <<>>
  /\ NoConverters

\* A call of HiveToSnowflakeConverter.splitStatements
HiveSplit ==
  /\ pc = "start"
  /\ pc' = "hiveSplit"
  /\ output' = hiveSplitStatements(input)
  /\ UNCHANGED <<input, cvars>>

\* preprocessSQL and splitStatements as SQLParser.convert runs them
ParserSplit ==
  /\ pc = "start"
  /\ pc' = "parserSplit"
  /\ output' = parserSegment(input)
  /\ UNCHANGED <<input, cvars>>

SegNext == HiveSplit \/ ParserSplit

SpecSeg == SegInit /\ [][SegNext]_vars

-----------------------------------------------------------------------------
(* DDLTransformer.transformCreateTable on bounded create-table statements *)

\* The column names and the column types (with a COMMENT where one is
\* given) the statements are built of
ColumnNames == {Chars("a"), Chars("b")}

ColumnTypes ==
  {Chars("INT"), Chars("DECIMAL(10,2)"), Chars("DECIMAL(10)"),
   Chars("MAP<STRING,INT>"), Chars("ARRAY<STRUCT<x:INT,y:INT>>"),
   Chars("STRING COMMENT 'x, y'")}

MaxColumns == 2

\* CREATE TABLE t (name type, name type, ...)
createTableOf(columns) ==
  Chars("CREATE TABLE t (")
    \o join([k \in 1..Len(columns) |->
               columns[k].name \o Chars(" ") \o columns[k].type], Chars(", "))
    \o Chars(")")

DDLInit ==
  /\ \E columns \in UNION {[1..n -> [name : ColumnNames, type : ColumnTypes]] :
                             n \in 1..MaxColumns} :
       input = [sql |-> createTableOf(columns), names |-> namesOf(columns)]
  /\ pc = "start"
  /\ output = <<>>
  /\ NoConverters

\* A call of DDLTransformer.transformCreateTable: what it returned or threw
TransformCreateTable ==
  /\ pc = "start"
  /\ pc' = "transformCreateTable"
  /\ output' = transformCreateTable(input.sql)
  /\ UNCHANGED <<input, cvars>>

DDLNext == TransformCreateTable

SpecDDL == DDLInit /\ [][DDLNext]_vars

-----------------------------------------------------------------------------
(* Segmentation claims *)

\* The lexical structure the specification describes: a string literal runs
\* from a quote to the next occurrence of the same quote, a line comment
\* from -- to the next newline, a block comment from /* to the next */, and
\* nothing inside one of them opens another.  The state of that lexer before
\* any character: the mode, the parenthesis depth, the positions of the
\* semicolons met in mode "code" at depth 0, and the index.
LexInit == [mode |-> "code", depth |-> 0, cuts |-> {}, i |-> 1]

\* In a line comment, a block comment, a string literal
LexInside(st, ch, nx) ==
  CASE st.mode = "line" ->
         [st EXCEPT !.mode = IF ch = NL THEN "code" ELSE @, !.i = @ + 1]
    [] st.mode = "block" ->
         IF ch = "*" /\ nx = "/" THEN [st EXCEPT !.mode = "code", !.i = @ + 2]
         ELSE [st EXCEPT !.i = @ + 1]
    [] OTHER ->
         [st EXCEPT !.mode = IF ch = st.mode THEN "code" ELSE @, !.i = @ + 1]

\* Outside all of them
LexCode(st, ch, nx) ==
  IF ch \in {"'", "\""} THEN [st EXCEPT !.mode = ch, !.i = @ + 1]
  ELSE IF ch = "-" /\ nx = "-" THEN [st EXCEPT !.mode = "line", !.i = @ + 2]
  ELSE IF ch = "/" /\ nx = "*" THEN [st EXCEPT !.mode = "block", !.i = @ + 2]
  ELSE IF ch = "(" THEN [st EXCEPT !.depth = @ + 1, !.i = @ + 1]
  ELSE IF ch = ")" THEN [st EXCEPT !.depth = @ - 1, !.i = @ + 1]
  ELSE IF ch = ";" /\ st.depth = 0
    THEN [st EXCEPT !.cuts = @ \cup {st.i}, !.i = @ + 1]
  ELSE [st EXCEPT !.i = @ + 1]

LexStep(st, sql) ==
  IF st.i > Len(sql) THEN st
  ELSE IF st.mode = "code"
    THEN LexCode(st, sql[st.i], charAt(sql, st.i + 1))
  ELSE LexInside(st, sql[st.i], charAt(sql, st.i + 1))

\* n steps of the lexer
RECURSIVE Lex(_, _, _)

LexOn(half, sql, n) == Then(half, Lex(half, sql, n))

Lex(st, sql, n) ==
  IF n = 0 THEN st
  ELSE IF n = 1 THEN LexStep(st, sql)
  ELSE LexOn(Lex(st, sql, n \div 2), sql, n - n \div 2)

\* The lexer at the end of sql
Lexed(sql) == Lex(LexInit, sql, Len(sql))

\* The positions of the semicolons of sql outside every string literal and
\* comment and at parenthesis depth 0
TopLevelSemicolons(sql) == Lexed(sql).cuts

\* C1: in HiveToSnowflakeConverter.splitStatements a semicolon ends the
\* current statement if and only if it lies outside every string literal,
\* line comment and block comment and at parenthesis depth 0: the positions
\* at which the scan separated statements are exactly the top-level
\* semicolons of the text.
C1_SeparatesExactlyAtTopLevel ==
  pc = "hiveSplit" => output.cuts = TopLevelSemicolons(input)

\* The top-level semicolon before position c (0: none)
CutBefore(cuts, c) ==
  IF \E d \in cuts : d < c
    THEN CHOOSE d \in cuts : d < c /\ \A e \in cuts : e < c => e <= d
    ELSE 0

\* Every statement of the script is non-empty and ends with a top-level
\* semicolon, cuts being the top-level semicolons.
Terminated(sql, cuts) ==
  /\ cuts # {}
  /\ \A c \in cuts : trim(SubSeq(sql, CutBefore(cuts, c) + 1, c - 1)) # <<>>
  /\ trim(SubSeq(sql, CutBefore(cuts, Len(sql) + 1) + 1, Len(sql))) = <<>>

EveryStatementTerminated(sql) == Terminated(sql, TopLevelSemicolons(sql))

\* C2: preprocessSQL followed by splitStatements (SQLParser.convert) returns
\* as many statements as the script has semicolons outside string literals,
\* comments and parentheses, for every script whose statements are each
\* non-empty and terminated by a semicolon.
C2_CountsTopLevelSemicolons ==
  (pc = "parserSplit" /\ EveryStatementTerminated(input))
    => Len(output.statements) = Cardinality(TopLevelSemicolons(input))

-----------------------------------------------------------------------------
(* Claims on the convert methods *)

\* The script ends inside a string literal or a block comment
Unterminated(sql) == Lexed(sql).mode \in {"'", "\"", "block"}

\* The result reports a failure: success is false, sql is absent and errors
\* holds a message
Aborted(result) ==
  /\ ~result.success
  /\ ~result.sql.defined
  /\ result.returned.errors # <<>>

\* C3: when the script ends inside an unterminated string literal or block
\* comment, HiveToSnowflakeConverter.convert returns success=false with an
\* error and no output SQL.
C3_UnterminatedAborts ==
  \A k \in 1..Len(results) :
    (results[k].cls = "hive" /\ Unterminated(results[k].input))
      => Aborted(results[k])

\* C4: the warnings of the result a convert call returns are the warnings
\* that call produced; no warning of an earlier call is among them.
C4_WarningsOfThisRequestOnly ==
  \A k \in 1..Len(results) :
    results[k].returned.warnings = results[k].pushed

\* C5: a result that has been returned is not changed by a later convert
\* call: its warnings and errors lists have the contents they had at the
\* return.
C5_ReturnedResultsAreFrozen ==
  \A k \in 1..Len(results) :
    /\ heap[results[k].warnings] = results[k].returned.warnings
    /\ results[k].errors # 0
         => heap[results[k].errors] = results[k].returned.errors

\* C6: under the unsupported-construct policy 'error', SQLParser.convert on a
\* script with a statement whose transformation throws returns success=false,
\* no output SQL and a non-empty errors list, and pushes no fallback warning.
C6_ErrorPolicyAborts ==
  \A k \in 1..Len(results) :
    (/\ results[k].cls = "parser"
     /\ results[k].options.handleUnsupported = "error"
     /\ results[k].raised # {})
      => Aborted(results[k]) /\ results[k].pushed = <<>>

\* C7: under the unsupported-construct policy 'warn', SQLParser.convert on a
\* script with one statement whose transformation throws pushes exactly one
\* warning and returns success=true with the converted text.
C7_WarnPolicyFallsBack ==
  \A k \in 1..Len(results) :
    (/\ results[k].cls = "parser"
     /\ results[k].options.handleUnsupported = "warn"
     /\ Cardinality(results[k].raised) = 1)
      => /\ results[k].success
         /\ results[k].sql.defined
         /\ Len(results[k].pushed) = 1

\* C8: every call of a convert method returns a ConversionResult; no
\* exception propagates to the caller.
C8_ConvertAlwaysReturns ==
  /\ ~escaped
  /\ Len(results) = calls
  /\ \A k \in 1..Len(results) :
       /\ results[k].success \in BOOLEAN
       /\ results[k].success <=> results[k].sql.defined

\* A convert call whose try block threw has returned its result
C8_Witness ==
  \E k \in 1..Len(results) :
    /\ results[k].cls = "parser"
    /\ ~results[k].success
    /\ results[k].returned.errors # <<>>

\* C9: when a call of the formatter throws, convert still returns
\* success=true with the unformatted text, and a warning is recorded.
C9_FormatFailureDegrades ==
  \A k \in 1..Len(results) :
    results[k].formatFailed
      => /\ results[k].success
         /\ results[k].sql.defined
         /\ results[k].pushed # <<>>

-----------------------------------------------------------------------------
(* Claims on DDLTransformer.transformCreateTable *)

\* The names of the columns in the column list of a generated statement: the
\* first word of each of the lines of the list
ColumnLines(sql) ==
  SelectSeq(splitChar(sql, NL), LAMBDA line : startsWith(line, Chars("  ")))

FirstWords(lines) == [k \in 1..Len(lines) |-> firstWord(trim(lines[k]))]

OutputColumnNames(sql) == FirstWords(ColumnLines(sql))

\* C10: the column names of the statement transformCreateTable returns are
\* the column names of its input, in the same order.
C10_ColumnNamesPreserved ==
  pc = "transformCreateTable"
    => ~output.thrown /\ OutputColumnNames(output.value) = input.names


-----------------------------------------------------------------------------
(* The conversions of single statements, on bounded create-table and insert *)
(* statements                                                                *)

\* The table of basic types of docs/README.md: each Hive type with its
\* Snowflake type
BasicTypes ==
  {<<"STRING", "VARCHAR">>, <<"INT", "NUMBER(38,0)">>,
   <<"INTEGER", "NUMBER(38,0)">>, <<"BIGINT", "NUMBER(38,0)">>,
   <<"SMALLINT", "NUMBER(5,0)">>, <<"TINYINT", "NUMBER(3,0)">>,
   <<"DECIMAL", "NUMBER">>, <<"DOUBLE", "DOUBLE">>, <<"FLOAT", "FLOAT">>,
   <<"BOOLEAN", "BOOLEAN">>, <<"BINARY", "BINARY">>,
   <<"TIMESTAMP", "TIMESTAMP_NTZ">>, <<"DATE", "DATE">>}

\* The precisions and scales of the decimal types of the columns

Precisions == {10, 38}

Scales == {0, 2}

decimalType(p, s) ==
  Chars("DECIMAL(") \o decimal(p) \o Chars(",") \o decimal(s) \o Chars(")")

DecimalTypes == {decimalType(p, s) : p \in Precisions, s \in Scales}

CompositeTypes ==
  {Chars("ARRAY<INT>"), Chars("ARRAY<ARRAY<INT>>"), Chars("MAP<STRING,INT>"),
   Chars("MAP<STRING,ARRAY<INT>>"), Chars("STRUCT<x:INT>")}

\* The types the columns are declared with: the basic types, parameterized
\* decimals and composite types
StatementTypes ==
  {Chars(type[1]) : type \in BasicTypes} \cup DecimalTypes \cup CompositeTypes

\* The names of the columns
StatementNames == {Chars("a"), Chars("point_id")}

\* The storage formats after STORED AS: those of the format tables and one
\* that is in none of them
StorageFormats ==
  {"TEXTFILE", "SEQUENCEFILE", "RCFILE", "ORC", "PARQUET", "AVRO", "JSONFILE",
   "KUDU"}

\* The clauses of a create-table statement, in the order of Hive's grammar
clauseTexts ==
  [partitionedBy |-> Chars(" PARTITIONED BY (d STRING)"),
   clusteredBy |-> Chars(" CLUSTERED BY (a) INTO 8 BUCKETS"),
   rowFormat |-> Chars(" ROW FORMAT DELIMITED"),
   storedAs |-> Chars(" STORED AS "),
   location |-> Chars(" LOCATION '/x'"),
   tblProperties |-> Chars(" TBLPROPERTIES ('k'='v')")]

clause(clauses, name) ==
  IF name \in clauses THEN clauseTexts[name] ELSE <<>>

\* CREATE TABLE t (columns) with the clauses named in clauses, the format
\* after STORED AS being storedAs (none when empty)
tableStatement(columns, clauses, storedAs) ==
  [kind |-> "table",
   sql |-> createTableOf(columns)
             \o clause(clauses, "partitionedBy")
             \o clause(clauses, "clusteredBy")
             \o clause(clauses, "rowFormat")
             \o (IF storedAs = "" THEN <<>>
                 ELSE clauseTexts.storedAs \o Chars(storedAs))
             \o clause(clauses, "location")
             \o clause(clauses, "tblProperties"),
   columns |-> columns,
   clauses |-> clauses,
   storedAs |-> storedAs]

\* The columns of the first scenario of the specification
scenarioColumns ==
  <<[name |-> Chars("a"), type |-> Chars("INT")],
    [name |-> Chars("b"), type |-> Chars("STRING")]>>

\* The create-table statements: one column of each name and type; the
\* scenario's columns with and without partitioning and bucketing; and with
\* each storage format and each choice of the other storage clauses
TableStatements ==
  {tableStatement(<<[name |-> n, type |-> t]>>, {}, "") :
     n \in StatementNames, t \in StatementTypes}
  \cup {tableStatement(scenarioColumns, clauses, storedAs) :
          clauses \in SUBSET {"partitionedBy", "clusteredBy"},
          storedAs \in {"", "ORC"}}
  \cup {tableStatement(scenarioColumns, clauses, storedAs) :
          clauses \in SUBSET {"rowFormat", "location", "tblProperties"},
          storedAs \in StorageFormats}

\* INSERT OVERWRITE or INTO, with or without TABLE and a PARTITION clause
insertStatement(overwrite, table, partition) ==
  [kind |-> "insert",
   sql |-> Chars("INSERT ")
             \o (IF overwrite THEN Chars("OVERWRITE ") ELSE Chars("INTO "))
             \o (IF table THEN Chars("TABLE ") ELSE <<>>)
             \o Chars("t ")
             \o (IF partition THEN Chars("PARTITION(dt='2024-01-01') ")
                 ELSE <<>>)
             \o Chars("SELECT * FROM s"),
   overwrite |-> overwrite]

InsertStatements ==
  {insertStatement(overwrite, table, partition) :
     overwrite \in BOOLEAN, table \in BOOLEAN, partition \in BOOLEAN}

\* The k-th INSERT clause of a multi-target insert: into its own target tk,
\* selecting its own column ck
insertClause(overwrite, k) ==
  Chars(" INSERT ")
    \o (IF overwrite THEN Chars("OVERWRITE TABLE ") ELSE Chars("INTO "))
    \o Chars("t") \o decimal(k) \o Chars(" SELECT c") \o decimal(k)

\* FROM src [WHERE x > 1] followed by one INSERT clause for each element of
\* overwrites
multiInsertStatement(where, overwrites) ==
  [kind |-> "multi",
   sql |-> Chars("FROM src")
             \o (IF where THEN Chars(" WHERE x > 1") ELSE <<>>)
             \o Flatten([k \in 1..Len(overwrites) |->
                           insertClause(overwrites[k], k)]),
   where |-> where,
   overwrites |-> overwrites]

\* The numbers of INSERT clauses of the multi-target inserts
ClauseCounts == {2, 3}

MultiInsertStatements ==
  {multiInsertStatement(where, overwrites) :
     where \in BOOLEAN,
     overwrites \in UNION {[1..n -> BOOLEAN] : n \in ClauseCounts}}

\* UPDATE t a JOIN s b ON on SET set [WHERE where]
updateStatement(on, set, where) ==
  [kind |-> "update",
   sql |-> Chars("UPDATE t a JOIN s b ON ") \o Chars(on) \o Chars(" SET ")
             \o Chars(set)
             \o (IF where = "" THEN <<>> ELSE Chars(" WHERE ") \o Chars(where)),
   on |-> on, set |-> set, where |-> where]

\* Join conditions, set lists and filters, with and without parentheses
UpdateStatements ==
  {updateStatement(on, set, where) :
     on \in {"a.id = b.id", "(a.id = b.id)"},
     set \in {"a.v = b.v", "a.v = (b.v + 1)"},
     where \in {"", "b.v > 0", "(b.v > 0)"}}

\* A query with a window frame RANGE BETWEEN bound PRECEDING AND CURRENT ROW
\* in an OVER clause ordered by orderBy
windowStatement(orderBy, bound) ==
  [kind |-> "window",
   sql |-> Chars("SELECT SUM(v) OVER (PARTITION BY k ORDER BY ")
             \o Chars(orderBy) \o Chars(" RANGE BETWEEN ") \o decimal(bound)
             \o Chars(" PRECEDING AND CURRENT ROW) FROM s"),
   orderBy |-> orderBy, bound |-> bound]

\* The bounds of the window frames
FrameBounds == {1, 10}

\* OVER clauses without and with parentheses inside
WindowStatements ==
  {windowStatement(orderBy, bound) :
     orderBy \in {"t", "unix_timestamp(t)"}, bound \in FrameBounds}

\* A query with LATERAL VIEW [OUTER] EXPLODE(items) e AS columns
lateralStatement(outer, columns) ==
  [kind |-> "lateral",
   sql |-> Chars("SELECT * FROM t LATERAL VIEW ")
             \o (IF outer THEN Chars("OUTER ") ELSE <<>>)
             \o Chars("EXPLODE(items) e AS ") \o Chars(columns),
   outer |-> outer, columns |-> columns]

\* The one-column form (of an array) and the two-column form (of a map)
LateralStatements ==
  {lateralStatement(outer, columns) :
     outer \in BOOLEAN, columns \in {"item", "k, v"}}

\* The query-level clauses, in the order of Hive's grammar
orderTexts ==
  [distributeBy |-> Chars(" DISTRIBUTE BY a"), sortBy |-> Chars(" SORT BY b"),
   clusterBy |-> Chars(" CLUSTER BY c")]

orderClause(clauses, name) ==
  IF name \in clauses THEN orderTexts[name] ELSE <<>>

\* A query with the distribution, sort and cluster clauses named in clauses
orderStatement(clauses) ==
  [kind |-> "order",
   sql |-> Chars("SELECT a FROM t") \o orderClause(clauses, "distributeBy")
             \o orderClause(clauses, "sortBy")
             \o orderClause(clauses, "clusterBy"),
   clauses |-> clauses]

OrderStatements ==
  {orderStatement(clauses) :
     clauses \in SUBSET {"distributeBy", "sortBy", "clusterBy"} \ {{}}}

\* A text given to preprocessSQL, with the string literal, comment or SET
\* clause of a statement it holds
text(sql, kept) == [kind |-> "text", sql |-> Chars(sql), kept |-> Chars(kept)]

\* A session directive and a hint before a literal; literals with two
\* spaces, with a comment marker and with a line that starts with SET;
\* comments; and the SET clause of an UPDATE, on one line and on its own line
PreprocessTexts ==
  {text("SET hive.exec.parallel=true;\nSELECT /*+ MAPJOIN(b) */ a FROM t WHERE c = 'x y'",
        "'x y'"),
   text("SELECT 'a  b' FROM t", "'a  b'"),
   text("SELECT '--x' FROM t", "'--x'"),
   text("SELECT 'k\nSET x=1;' FROM t", "'k\nSET x=1;'"),
   text("SELECT a FROM t -- note", "-- note"),
   text("SELECT a FROM t -- ##### end", "-- ##### end"),
   text("UPDATE t SET a = 1;", "SET a = 1"),
   text("UPDATE t\nSET a = 1;", "SET a = 1")}

\* A statement given to convertStatement, with the kind its leading
\* keywords make it
dispatched(sql, leading) ==
  [kind |-> "dispatch", sql |-> Chars(sql), leading |-> leading]

\* Statements of each kind, and queries with the keywords of another kind in
\* a string literal or a comment
DispatchStatements ==
  {dispatched("CREATE TABLE t (a INT)", "table"),
   dispatched("CREATE EXTERNAL TABLE t (a INT)", "table"),
   dispatched("INSERT INTO t SELECT a FROM s", "insert"),
   dispatched("INSERT OVERWRITE TABLE t SELECT a FROM s", "insert"),
   dispatched("SELECT a FROM s", "query"),
   dispatched("SELECT 'CREATE TABLE x' FROM s", "query"),
   dispatched("SELECT a FROM s WHERE c = 'INSERT INTO t'", "query"),
   dispatched("SELECT a FROM s -- INSERT OVERWRITE t", "query")}

\* The statements that are neither create-table nor insert statements of
\* the sets above
QueryStatements ==
  UpdateStatements \cup WindowStatements \cup LateralStatements
    \cup OrderStatements \cup DispatchStatements

QueryKinds == {"update", "window", "lateral", "order", "dispatch"}

StmtInit ==
  /\ input \in TableStatements \cup InsertStatements
                \cup MultiInsertStatements \cup QueryStatements
                \cup PreprocessTexts
  /\ pc = "start"
  /\ output = <<>>
  /\ NoConverters

\* The function named by step has been applied to the statement and has
\* returned or thrown result
Applied(step, result) ==
  /\ pc = "start"
  /\ pc' = step
  /\ output' = result
  /\ UNCHANGED <<input, cvars>>

\* The function has been applied once more, to what it returned
AppliedAgain(step, next, result) ==
  /\ pc = step
  /\ pc' = next
  /\ output' = [first |-> output, again |-> result]
  /\ UNCHANGED <<input, cvars>>

\* ddlTransformer.transformCreateTable(sql)
TransformTable ==
  /\ input.kind = "table"
  /\ Applied("ddl", transformCreateTable(input.sql))

\* ... and transformCreateTable of the statement it returned
TransformTableAgain ==
  /\ pc = "ddl"
  /\ ~output.thrown
  /\ AppliedAgain("ddl", "ddlAgain", transformCreateTable(output.value))

\* HiveToSnowflakeConverter.convertCreateTable(sql) of converter/index.ts
HiveCreateTable ==
  /\ input.kind = "table"
  /\ Applied("hive", patch(input.sql, hiveConvertCreateTable))

\* ... and convertCreateTable of the statement it returned
HiveCreateTableAgain ==
  /\ pc = "hive"
  /\ AppliedAgain("hive", "hiveAgain",
                  patch(output.sql, hiveConvertCreateTable))

\* The preprocessing of SQLParser.convert, which throws nothing
ParserPreprocess ==
  /\ input.kind \in {"table", "text"}
  /\ Applied("preprocess", Ok(parserPreprocessSQL(input.sql)))

\* SQLConverter.convert(hiveSQL) of converter.worker.ts
WorkerStatement ==
  /\ input.kind \in {"table", "insert"} \cup QueryKinds
  /\ Applied("worker", workerConvert(input.sql))

\* SQLConverter.convert(hiveSQL) of part_004
Part4Statement ==
  /\ input.kind \in {"table", "insert"}
  /\ \E formatThrows \in BOOLEAN :
       Applied("part4", part4Convert(input.sql, formatThrows))

\* dmlTransformer.transformInsert(sql), which throws nothing
TransformInsert ==
  /\ input.kind \in {"insert", "multi"}
  /\ Applied("dml", Ok(transformInsert(input.sql)))

\* HiveToSnowflakeConverter.convertInsert(sql) of converter/index.ts
HiveInsert ==
  /\ input.kind = "insert"
  /\ Applied("hiveInsert", patch(input.sql, hiveConvertInsert))

\* dmlTransformer.transformUpdate(sql), which throws nothing
TransformUpdate ==
  /\ input.kind = "update"
  /\ Applied("update", Ok(transformUpdate(input.sql)))

\* SQLParser.convertStatement(sql) of converter/index.ts, the parser
\* accepting the statement or not
ParserStatement ==
  /\ input.kind \in QueryKinds
  /\ \E parseThrows \in BOOLEAN :
       Applied("parser", parserConvertStatement(input.sql, parseThrows))

\* HiveToSnowflakeConverter.convertStatement(sql) of converter/index.ts,
\* which throws nothing
HiveStatement ==
  /\ input.kind \in QueryKinds
  /\ Applied("hiveStatement", Ok(hiveConvertStatement(input.sql)))

\* HiveToSnowflakeConverter.convert(hiveSQL) of lib/converter.ts
LibStatement ==
  /\ input.kind \in QueryKinds
  /\ Applied("lib", libConvert(input.sql))

\* SQLConverter.preprocessSQL(sql) of converter.worker.ts
WorkerPreprocess ==
  /\ input.kind = "text"
  /\ Applied("workerPreprocess", patch(input.sql, workerPreprocessSQL))

\* HiveToSnowflakeConverter.preprocessSQL(sql) of converter/index.ts
HivePreprocess ==
  /\ input.kind = "text"
  /\ Applied("hivePreprocess", patch(input.sql, hivePreprocessSQL))

StmtNext ==
  \/ TransformTable
  \/ TransformTableAgain
  \/ HiveCreateTable
  \/ HiveCreateTableAgain
  \/ ParserPreprocess
  \/ WorkerStatement
  \/ Part4Statement
  \/ TransformInsert
  \/ HiveInsert
  \/ TransformUpdate
  \/ ParserStatement
  \/ HiveStatement
  \/ LibStatement
  \/ WorkerPreprocess
  \/ HivePreprocess

SpecStmt == StmtInit /\ [][StmtNext]_vars

-----------------------------------------------------------------------------
(* The App component: its state and its handlers *)

\* The number of clicks on the convert button that are followed
MaxConverts == 3

\* What the user can leave in the Hive SQL text area
Typed == {<<>>, Chars(" "), Chars(" SELECT 1"), Chars("SELECT 2 ")}

\* What converter.convert(hiveSQL.trim()) of './lib/sqlConverter' can hand
\* back: a result object, or an exception
ConvertResults(hiveSQL) ==
  {[thrown |-> FALSE, success |-> TRUE, sql |-> Chars("sf:") \o hiveSQL,
    warnings |-> ws, errors |-> <<>>, message |-> <<>>] :
     ws \in {<<>>, <<Chars("w")>>}}
  \cup {[thrown |-> FALSE, success |-> TRUE, sql |-> <<>>,
         warnings |-> <<>>, errors |-> <<>>, message |-> <<>>]}
  \cup {[thrown |-> FALSE, success |-> FALSE, sql |-> <<>>,
         warnings |-> <<>>, errors |-> es, message |-> <<>>] :
          es \in {<<>>, <<Chars("e")>>}}
  \cup {[thrown |-> TRUE, success |-> FALSE, sql |-> <<>>,
         warnings |-> <<>>, errors |-> <<>>, message |-> Chars("x")]}

\* result.errors?.[0] || 'Conversion failed'
firstError(result) ==
  IF result.errors # <<>> /\ result.errors[1] # <<>>
  THEN result.errors[1]
  ELSE Chars("Conversion failed")

\* The component's state once handleConvert has run on a non-empty text
\* and the converter handed back result
converted(result) ==
  IF ~result.thrown /\ result.success /\ result.sql # <<>>
  THEN [snowflakeSQL |-> result.sql, error |-> <<>>,
        warnings |-> result.warnings, isConverting |-> FALSE]
  ELSE [snowflakeSQL |-> <<>>,
        error |-> IF result.thrown THEN result.message
                  ELSE firstError(result),
        warnings |-> <<>>, isConverting |-> FALSE]

\* useState('') four times and useState(false)
AppInit ==
  /\ input = <<>>
  /\ pc = "mounted"
  /\ output = [snowflakeSQL |-> <<>>, error |-> <<>>, warnings |-> <<>>,
               isConverting |-> FALSE]
  /\ heap = <<>>
  /\ objs = <<>>
  /\ results = <<>>
  /\ calls = 0
  /\ escaped = FALSE

\* onChange of the Hive SQL text area: setHiveSQL(e.target.value)
SetHiveSQL ==
  /\ ~output.isConverting
  /\ \E value \in Typed : input' = value
  /\ input' # input
  /\ UNCHANGED <<pc, output, cvars>>

\* App.handleConvert on a text that is empty once trimmed
HandleConvertEmpty ==
  /\ ~output.isConverting
  /\ calls < MaxConverts
  /\ trim(input) = <<>>
  /\ output' = [output EXCEPT
                  !.error = Chars("Please enter some Hive SQL to convert")]
  /\ pc' = "returned"
  /\ calls' = calls + 1
  /\ UNCHANGED <<input, heap, objs, results, escaped>>

\* App.handleConvert on any other text
HandleConvert ==
  /\ ~output.isConverting
  /\ calls < MaxConverts
  /\ trim(input) # <<>>
  /\ \E result \in ConvertResults(trim(input)) : output' = converted(result)
  /\ pc' = "returned"
  /\ calls' = calls + 1
  /\ UNCHANGED <<input, heap, objs, results, escaped>>

AppNext ==
  \/ SetHiveSQL
  \/ HandleConvertEmpty
  \/ HandleConvert

SpecApp == AppInit /\ [][AppNext]_vars

-----------------------------------------------------------------------------
(* The HTTP handler of api/convert.js and the events of its child process *)

\* The number of 'data' events of the child's stdout and stderr together
MaxChunks == 3

\* The requests: req.method and req.body
Requests ==
  {[method |-> method, body |-> body] :
     method \in {"GET", "POST"}, body \in {<<>>, Chars("SELECT 1")}}

\* What one 'data' event of the child's stdout or stderr carries
StdoutChunks == {Chars("{"), Chars("}"), Chars(" ")}
StderrChunks == {Chars("e")}

\* The exit codes passed to the 'close' listener
ExitCodes == {0, 1}

\* Whether JSON.parse accepts text, for the texts made of StdoutChunks
parses(str) ==
  SelectSeq(str, LAMBDA ch : ch \notin SpaceChars) = Chars("{}")

\* res.status(status).json(body) once more
json(responses, status, body) ==
  Append(responses, [status |-> status, body |-> body])

\* The calls of res.status(...).json(...) made by the 'close' listener when
\* the exit code is 0; jsonThrows: res.json throws inside the try block
closedCleanly(responses, outputData, jsonThrows) ==
  IF ~parses(trim(outputData))
  THEN json(responses, 500, Chars("Invalid converter output"))
  ELSE IF jsonThrows
  THEN json(json(responses, 200, trim(outputData)),
            500, Chars("Invalid converter output"))
  ELSE json(responses, 200, trim(outputData))

\* errorData || 'Conversion process failed'
failureOf(errorData) ==
  IF errorData # <<>> THEN errorData ELSE Chars("Conversion process failed")

HandlerInit ==
  /\ input \in Requests
  /\ pc = "request"
  /\ output = [responses |-> <<>>, outputData |-> <<>>, errorData |-> <<>>,
               errored |-> FALSE]
  /\ NoConverters

\* handler(req, res) on a request that is not a POST
HandlerMethodNotAllowed ==
  /\ pc = "request"
  /\ input.method # "POST"
  /\ pc' = "returned"
  /\ output' = [output EXCEPT
       !.responses = json(@, 405, Chars("Method not allowed"))]
  /\ UNCHANGED <<input, cvars>>

\* handler(req, res) on a POST without a body
HandlerNoBody ==
  /\ pc = "request"
  /\ input.method = "POST"
  /\ input.body = <<>>
  /\ pc' = "returned"
  /\ output' = [output EXCEPT
       !.responses = json(@, 400, Chars("No SQL provided"))]
  /\ UNCHANGED <<input, cvars>>

\* handler(req, res) on a POST with a body: the child is spawned, the
\* listeners are registered and the body is written to the child's stdin
HandlerSpawn ==
  /\ pc = "request"
  /\ input.method = "POST"
  /\ input.body # <<>>
  /\ pc' = "spawned"
  /\ \E writeThrows \in BOOLEAN :
       output' = [output EXCEPT
         !.responses = IF writeThrows
                       THEN json(@, 500,
                                 Chars("Failed to send SQL to converter"))
                       ELSE @]
  /\ UNCHANGED <<input, cvars>>

\* pythonProcess.stdout.on('data')
OnStdoutData ==
  /\ pc = "spawned"
  /\ Len(output.outputData) + Len(output.errorData) < MaxChunks
  /\ \E data \in StdoutChunks :
       output' = [output EXCEPT !.outputData = @ \o data]
  /\ UNCHANGED <<input, pc, cvars>>

\* pythonProcess.stderr.on('data')
OnStderrData ==
  /\ pc = "spawned"
  /\ Len(output.outputData) + Len(output.errorData) < MaxChunks
  /\ \E data \in StderrChunks :
       output' = [output EXCEPT !.errorData = @ \o data]
  /\ UNCHANGED <<input, pc, cvars>>

\* pythonProcess.on('error')
OnError ==
  /\ pc = "spawned"
  /\ ~output.errored
  /\ output' = [output EXCEPT
       !.responses = json(@, 500, Chars("Failed to start converter process")),
       !.errored = TRUE]
  /\ UNCHANGED <<input, pc, cvars>>

\* pythonProcess.on('close')
OnClose ==
  /\ pc = "spawned"
  /\ pc' = "closed"
  /\ \E code \in ExitCodes, jsonThrows \in BOOLEAN :
       /\ jsonThrows => (code = 0 /\ output.responses # <<>>)
       /\ output' = [output EXCEPT
            !.responses =
               IF code # 0
               THEN json(@, 500, failureOf(output.errorData))
               ELSE closedCleanly(@, output.outputData, jsonThrows)]
  /\ UNCHANGED <<input, cvars>>

HandlerNext ==
  \/ HandlerMethodNotAllowed
  \/ HandlerNoBody
  \/ HandlerSpawn
  \/ OnStdoutData
  \/ OnStderrData
  \/ OnError
  \/ OnClose

SpecHandler == HandlerInit /\ [][HandlerNext]_vars

-----------------------------------------------------------------------------
(* Claims on the conversions of single statements *)

\* A text with its formatting removed: no whitespace, upper case
Formatless(sql) ==
  toUpperCase(SelectSeq(sql, LAMBDA ch : ch \notin SpaceChars))

\* Whether sql holds the text str, formatting apart
Holds(sql, str) == includes(Formatless(sql), Formatless(Chars(str)))

\* The column list of a create-table statement without trailing clauses: the
\* text between its first "(" and its last ")"
ColumnList(sql) ==
  trim(SubSeq(sql,
              (CHOOSE i \in positions(sql, "(") :
                 \A j \in positions(sql, "(") : i <= j) + 1,
              (CHOOSE i \in positions(sql, ")") :
                 \A j \in positions(sql, ")") : j <= i) - 1))

\* The name and the type a statement declares its only column with
DeclaredName(sql) == firstWord(ColumnList(sql))

DeclaredType(sql) ==
  Formatless(SubSeq(ColumnList(sql), Len(DeclaredName(sql)) + 1,
                    Len(ColumnList(sql))))

\* The statement declares one column and has no clause after the column list
OneColumn ==
  /\ input.kind = "table"
  /\ Len(input.columns) = 1
  /\ input.clauses = {}
  /\ input.storedAs = ""

\* The text a conversion of a statement has returned
Converted ==
  IF "value" \in DOMAIN output THEN output.value ELSE output.sql

\* A conversion of a statement has returned, not thrown
HasReturned == "thrown" \in DOMAIN output => ~output.thrown

\* C11: converting again the statement the DDL path has returned gives the
\* same statement, formatting apart: the same table name, column names and
\* types, cluster columns and storage format.
C11_RerunChangesOnlyFormatting ==
  /\ pc = "ddlAgain"
       => /\ ~output.again.thrown
          /\ Formatless(output.again.value) = Formatless(output.first.value)
  /\ pc = "hiveAgain"
       => Formatless(output.again.sql) = Formatless(output.first.sql)

\* C12: a column of a basic type of the documentation's table is given the
\* Snowflake type of that table by DDLTransformer, by
\* HiveToSnowflakeConverter.convertDataTypes and by
\* SQLConverter.convertDataTypes.
C12_BasicTypesMapAsDocumented ==
  \A type \in BasicTypes :
    (OneColumn /\ input.columns[1].type = Chars(type[1])
       /\ pc \in {"ddl", "hive", "worker"})
      => /\ HasReturned
         /\ DeclaredType(Converted) = Chars(type[2])

\* C13: the name of the column in the converted statement is the name of the
\* column in the input: renaming types rewrites no part of an identifier.
C13_NoInventedNames ==
  (OneColumn /\ pc \in {"hive", "worker"})
    => /\ HasReturned
       /\ DeclaredName(Converted) = input.columns[1].name

\* NUMBER(p,s)
numberType(p, s) ==
  Chars("NUMBER(") \o decimal(p) \o Chars(",") \o decimal(s) \o Chars(")")

\* C14: a column declared DECIMAL(p,s) is emitted as NUMBER(p,s), with the
\* same p and s, by DDLTransformer.transformCreateTable and by
\* HiveToSnowflakeConverter.convertCreateTable.
C14_DecimalKeepsPrecisionAndScale ==
  \A p \in Precisions, s \in Scales :
    (OneColumn /\ input.columns[1].type = decimalType(p, s)
       /\ pc \in {"ddl", "hive"})
      => /\ HasReturned
         /\ DeclaredType(Converted) = numberType(p, s)

\* The Snowflake type of a composite type
compositeTarget(type) ==
  IF startsWith(type, Chars("ARRAY")) THEN Chars("ARRAY") ELSE Chars("OBJECT")

\* The warnings a conversion of a statement has recorded (preprocessSQL,
\* the transformers and both convertStatement return the text alone)
Recorded ==
  IF "warnings" \in DOMAIN output THEN output.warnings ELSE <<>>

\* C15: a column of a composite type is emitted as exactly ARRAY (ARRAY<...>)
\* or OBJECT (MAP<...>, STRUCT<...>) whatever the nesting of its arguments,
\* and exactly one warning is recorded for the statement.
C15_CompositeTypesDropArguments ==
  (OneColumn /\ input.columns[1].type \in CompositeTypes
     /\ pc \in {"preprocess", "hive", "worker"})
    => /\ HasReturned
       /\ DeclaredType(Converted) = compositeTarget(input.columns[1].type)
       /\ Len(Recorded) = 1

\* C16: with PARTITIONED BY (d STRING) and no CLUSTERED BY clause, the
\* statement DDLTransformer.transformCreateTable returns clusters by the
\* partition columns: it holds CLUSTER BY (d).
C16_PartitionColumnsClustered ==
  (pc = "ddl" /\ "partitionedBy" \in input.clauses
     /\ "clusteredBy" \notin input.clauses)
    => /\ HasReturned
       /\ Holds(Converted, "CLUSTER BY (d)")

\* C17: with CLUSTERED BY (a) INTO 8 BUCKETS, the statement
\* SQLConverter.convert returns holds CLUSTER BY (a) and no bucket count, and
\* a warning is recorded.
C17_BucketsBecomeClusterColumns ==
  (pc = "worker" /\ input.kind = "table" /\ "clusteredBy" \in input.clauses)
    => /\ HasReturned
       /\ Holds(Converted, "CLUSTER BY (a)")
       /\ ~Holds(Converted, "BUCKETS")
       /\ Recorded # <<>>

\* The table of file formats of docs/README.md: each Hive format with its
\* Snowflake format
FileFormats ==
  {<<"TEXTFILE", "CSV">>, <<"SEQUENCEFILE", "PARQUET">>,
   <<"RCFILE", "PARQUET">>, <<"ORC", "PARQUET">>, <<"PARQUET", "PARQUET">>,
   <<"AVRO", "PARQUET">>, <<"JSONFILE", "JSON">>}

\* The Snowflake format of the format after STORED AS: that of the table,
\* the generic columnar format for a format the table does not have
TargetFormat(storedAs) ==
  IF \E f \in FileFormats : f[1] = storedAs
    THEN (CHOOSE f \in FileFormats : f[1] = storedAs)[2]
    ELSE "PARQUET"

\* FILE_FORMAT = snowFormat
FileFormat(snowFormat) == Chars("FILE_FORMAT = ") \o Chars(snowFormat)

\* C18: DDLTransformer.transformCreateTable maps the format after STORED AS
\* through the table of formats, and a format the table does not have to
\* PARQUET (the text it returns being all it can record).
C18_StorageFormatMapped ==
  (pc = "ddl" /\ input.storedAs # "")
    => /\ HasReturned
       /\ includes(Formatless(Converted),
                   Formatless(FileFormat(TargetFormat(input.storedAs))))

\* C19: with STORED AS f, f in the table of formats, the statement the
\* convert method of SQLConverter returns holds FILE_FORMAT = the format f
\* maps to, whichever of ROW FORMAT, LOCATION and TBLPROPERTIES the statement
\* carries as well.
C19_StrippingKeepsFileFormat ==
  (pc \in {"worker", "part4"} /\ input.kind = "table" /\ HasReturned
     /\ \E f \in FileFormats : f[1] = input.storedAs)
    => includes(Formatless(Converted),
                Formatless(FileFormat(TargetFormat(input.storedAs))))

\* C20: INSERT OVERWRITE [TABLE] t [PARTITION(...)] select is converted to
\* INSERT OVERWRITE INTO t select, the partition clause removed; INSERT INTO
\* stays INSERT INTO.
C20_OverwriteStaysOverwrite ==
  (input.kind = "insert" /\ pc \in {"dml", "hiveInsert", "worker"})
    => /\ HasReturned
       /\ input.overwrite
            => Formatless(Converted)
                 = Formatless(Chars("INSERT OVERWRITE INTO t SELECT * FROM s"))
       /\ ~input.overwrite
            => startsWith(Formatless(Converted),
                          Formatless(Chars("INSERT INTO ")))

\* The statements of a text of statements joined with semicolons
Statements(sql) == splitChar(sql, ";")

\* The k-th INSERT clause as an insert of its own: INSERT INTO or INSERT
\* OVERWRITE INTO tk ...
insertHead(overwrite, k) ==
  Chars("INSERT ")
    \o (IF overwrite THEN Chars("OVERWRITE INTO ") ELSE Chars("INTO "))
    \o Chars("t") \o decimal(k) \o Chars(" SELECT c") \o decimal(k)

\* C21: a multi-target insert of N INSERT clauses given to
\* DMLTransformer.transformInsert comes back as N statements, the k-th being
\* the insert of the k-th clause into its own target, with the shared FROM
\* and, if there is one, the shared WHERE.
C21_MultiInsertFansOut ==
  (input.kind = "multi" /\ pc = "dml")
    => /\ Len(Statements(Converted)) = Len(input.overwrites)
       /\ \A k \in 1..Len(input.overwrites) :
            /\ startsWith(Formatless(Statements(Converted)[k]),
                          Formatless(insertHead(input.overwrites[k], k)))
            /\ Holds(Statements(Converted)[k], "FROM src")
            /\ input.where => Holds(Statements(Converted)[k], "WHERE x > 1")

\* MERGE INTO t a USING s b ON on WHEN MATCHED [AND where] THEN UPDATE SET set
mergeStatement(on, set, where) ==
  Chars("MERGE INTO t a USING s b ON ") \o Chars(on)
    \o Chars(" WHEN MATCHED ")
    \o (IF where = "" THEN <<>> ELSE Chars("AND ") \o Chars(where))
    \o Chars(" THEN UPDATE SET ") \o Chars(set)

\* C22: UPDATE t a JOIN s b ON c SET l [WHERE w] given to
\* SQLParser.convertStatement comes back as MERGE INTO t a USING s b ON c
\* WHEN MATCHED [AND w] THEN UPDATE SET l, as DMLTransformer.transformUpdate
\* writes it, with c, l and w whole.
C22_UpdateJoinBecomesMerge ==
  (input.kind = "update" /\ pc \in {"update", "parser"})
    => /\ ~output.thrown
       /\ Formatless(output.value)
            = Formatless(mergeStatement(input.on, input.set, input.where))

\* ROWS BETWEEN n PRECEDING AND CURRENT ROW
rowsBetween(bound) ==
  Chars("ROWS BETWEEN ") \o decimal(bound) \o Chars(" PRECEDING AND CURRENT ROW")

\* C23: the frame RANGE BETWEEN n PRECEDING AND CURRENT ROW of an OVER clause
\* comes back as ROWS BETWEEN n PRECEDING AND CURRENT ROW, also when the OVER
\* clause has parentheses inside, and a warning is recorded.
C23_RangeFrameBecomesRows ==
  (input.kind = "window" /\ pc \in {"hiveStatement", "lib"})
    => /\ HasReturned
       /\ includes(Formatless(Converted),
                   Formatless(rowsBetween(input.bound)))
       /\ ~Holds(Converted, "RANGE BETWEEN")
       /\ Recorded # <<>>

\* CROSS JOIN TABLE(FLATTEN(input => items)) AS e(columns)
flattenOf(columns) ==
  Chars("CROSS JOIN TABLE(FLATTEN(input => items)) AS e(") \o Chars(columns)
    \o Chars(")")

\* C24: LATERAL VIEW [OUTER] EXPLODE(items) e AS c, and AS k, v, comes back
\* as a cross join with the flattened items that keeps the alias e and every
\* output column, nothing of the column list being left behind it, and a
\* warning is recorded.
C24_LateralViewBecomesFlatten ==
  (input.kind = "lateral" /\ pc \in {"hiveStatement", "worker"})
    => /\ HasReturned
       /\ Formatless(Converted)
            = Formatless(Chars("SELECT * FROM t ") \o flattenOf(input.columns))
       /\ Recorded # <<>>

\* C25: a statement with more than one of DISTRIBUTE BY, SORT BY and CLUSTER
\* BY is reported as an error: no conversion returns a text for it.
C25_SeveralOrderClausesRejected ==
  (input.kind = "order" /\ Cardinality(input.clauses) > 1
     /\ pc \in {"hiveStatement", "lib", "parser"})
    => output.thrown

\* C26: the string literal, the comment and the SET clause of a statement
\* that a text holds are in the text preprocessSQL returns, character for
\* character.
C26_PreprocessKeepsLiteralsAndComments ==
  (input.kind = "text"
     /\ pc \in {"workerPreprocess", "hivePreprocess", "preprocess"})
    => includes(Converted, input.kept)

\* The branches of convertStatement a statement of each kind belongs to, in
\* HiveToSnowflakeConverter (create table, insert, with, select) and in
\* SQLParser (create table, alter table, insert overwrite, insert into,
\* parser)
hiveBranches == [table |-> {1}, insert |-> {2}, query |-> {4}]

parserBranches == [table |-> {1}, insert |-> {3, 4}, query |-> {5}]

\* C28: convertStatement takes the branch of the kind the leading keywords
\* of the statement make it: create table, insert, and query for every other
\* statement, whatever keywords stand further on in it.
C28_KindFromLeadingKeywords ==
  /\ (input.kind = "dispatch" /\ pc = "hiveStatement")
       => firstMatching(input.sql, hiveStatementTests)
            \in hiveBranches[input.leading]
  /\ (input.kind = "dispatch" /\ pc = "parser")
       => firstMatching(input.sql, parserStatementTests)
            \in parserBranches[input.leading]

-----------------------------------------------------------------------------
(* Claims on the results of the convert methods *)

\* The last n elements of a list
lastOf(list, n) == SubSeq(list, Len(list) - n + 1, Len(list))

\* C27: a ConversionResult with success=true has the output sql and no
\* error; one with success=false has no sql and at least one error; the
\* warnings of the call stand in its warnings in the order they were
\* recorded.
C27_ResultShape ==
  \A k \in 1..Len(results) :
    /\ results[k].success
         => results[k].sql.defined /\ results[k].returned.errors = <<>>
    /\ ~results[k].success
         => ~results[k].sql.defined /\ results[k].returned.errors # <<>>
    /\ lastOf(results[k].returned.warnings, Len(results[k].pushed))
         = results[k].pushed

-----------------------------------------------------------------------------
(* Claims on the App component *)

\* C30: once handleConvert has returned, isConverting is false, and an
\* error message is never displayed together with a converted text or
\* with warnings: whenever error is not empty, snowflakeSQL and warnings
\* are empty, also after a click on an empty or blank text that follows
\* a successful conversion
C30_DisplayConsistent ==
  pc = "returned" =>
    /\ ~output.isConverting
    /\ output.error # <<>> =>
         (output.snowflakeSQL = <<>> /\ output.warnings = <<>>)

-----------------------------------------------------------------------------
(* Claims on the HTTP handler *)

\* C29: the handler answers every request exactly once:
\* res.status(...).json(...) is never called twice, whatever the order of
\* the child's events and whether or not the write to its stdin fails, and
\* it has been called once when the handler has returned without a child
\* or the child has closed
C29_OneResponse ==
  /\ Len(output.responses) <= 1
  /\ pc \in {"returned", "closed"} => Len(output.responses) = 1
====
